---- MODULE Spec2Model ----
(***************************************************************************)
(* The eqWAlizer driver of crates/eqwalizer/src/lib.rs: the batch protocol *)
(* loop (do_typecheck), the shell top-level loop (shell_typecheck), the    *)
(* shell per-module loop (get_module_diagnostics behind the memoized query *)
(* module_diagnostics) and the merge of outcomes                           *)
(* (EqwalizerDiagnostics::combine).                                        *)
(*                                                                         *)
(* Every call on the IPC handle (send, receive, receive_newline,           *)
(* send_bytes) is one step: it is a blocking point, it can fail (the `?`   *)
(* after it), and the cancellation signal can arrive between two of them.  *)
(* The child process, the AST queries and the transport are the            *)
(* environment: what they answer is chosen from small sets.                *)
(***************************************************************************)
EXTENDS Integers, Sequences, FiniteSets, TLC

VARIABLES
    shell,        \* Eqwalizer.shell
    pc,           \* position of the thread that called typecheck
    cancelled,    \* the incremental engine's cancellation flag
    log,          \* the calls on the handle, the db and the engine made since
                  \* the running loop began its current iteration
    cur,          \* module and ast of the GetAstBytes being answered (locals)
    diagnostics,  \* shell_typecheck's accumulator
    mres,         \* what db.module_diagnostics returned to shell_typecheck
    mresults,     \* the per-module results, in the order they were returned
    result,       \* what typecheck returned
    registry,     \* modules with a handle set by set_module_ipc_handle
    memo,         \* the engine's memo of module_diagnostics, per module
    lock,         \* holder of the shell handle's mutex
    nrecv,        \* protocol messages received from the child so far
    served,       \* history: the results of the AST queries made for the
                  \* GetAstBytes of the running loop
    nenter,       \* history: EnteringModule received by the top-level loop
    nexit,        \* history: ELPExitingModule sends made by the top-level loop
    untracked,    \* the engine's mark on the running computation, set by
                  \* report_untracked_read
    late,         \* history: the calls on the handle started after the
                  \* cancellation was signalled
    nask,         \* history: GetAstBytes received by the batch loop or by a
                  \* per-module loop
    nans,         \* history: GetAstBytesReply and CannotCompleteRequest sent
    ignored,      \* history: a message fell to a catch-all arm
    limit,        \* protocol messages the child sends in this run
    nlock,        \* history: times a query took the handle's guard
    nelp,         \* history: ELPEnteringModule sends made
    opened,       \* history: who made the ELPEnteringModule sends since the
                  \* last ELPExitingModule send
    prefetched,   \* history: whether the transitive-stub queries made for
                  \* the Dependencies of the running per-module loop
                  \* returned Ok (TRUE) or an error (FALSE)
    pc2,          \* position of a second thread calling module_diagnostics
    cur2,         \* its locals
    mres2,        \* what module_diagnostics returned to it
    args,         \* operands of the pure function under check (the
                  \* specifications of combine, compute_eqwalizer_stats and
                  \* unused_macro alone)
    vals          \* the values computed from them

vars == <<shell, pc, cancelled, log, cur, diagnostics, mres, mresults, result,
          registry, memo, lock, nrecv, served, nenter, nexit, untracked, late,
          nask, nans, ignored, pc2, cur2, mres2, args, vals, limit,
                   prefetched, nlock, nelp, opened>>

-----------------------------------------------------------------------------
(* Bounds and input sets *)

\* Protocol messages the child sends in one run.
MaxMsgs == 5

\* Protocol messages the child sends in a run shared with a second thread.
MaxSharedMsgs == 3

\* Longest AST, in bytes, that fits the reply's length field.
MaxLen == 1

\* Byte lengths are usize and the reply's ast_bytes_len is u32; a length is
\* kept as two 16-bit-weighted limbs, hi * Limb + lo, so that the first
\* length that does not fit u32 (hi = Limb, lo = 0) can be written down.
Limb == 65536
Bytes(n) == [hi |-> 0, lo |-> n]
TooLong == [hi |-> Limb, lo |-> 0]

\* The conversion never failing (a truncating cast).
FitsU32_truncating(len) == TRUE

\* usize -> u32 of ast_bytes.len().try_into()
FitsU32(len) == len.hi < Limb

Modules == {"m1", "m2"}

\* The AST formats of a GetAstBytes, each with the db query lib.rs calls for it.
QueryOf ==
    [RawForms        |-> "get_erl_ast_bytes",
     ConvertedForms  |-> "converted_ast_bytes",
     RawStub         |-> "get_erl_stub_bytes",
     ConvertedStub   |-> "converted_stub_bytes",
     ExpandedStub    |-> "expanded_stub_bytes",
     ContractiveStub |-> "contractive_stub_bytes",
     CovariantStub   |-> "covariant_stub_bytes",
     TransitiveStub  |-> "transitive_stub_bytes"]

\* Lengths of the byte strings an AST query returns; the last one does not
\* fit in u32.
AstLens == {Bytes(n) : n \in 0 .. MaxLen} \cup {TooLong}

AstErrors == {"boom"}

\* Result<Arc<Vec<u8>>, ast::Error>: only the length of the bytes matters.
AstResults ==
    [kind : {"Ok"}, len : AstLens, err : {""}]
    \cup [kind : {"ModuleNotFound", "ParseError"}, len : {Bytes(0)}, err : {""}]
    \cup [kind : {"Other"}, len : {Bytes(0)}, err : AstErrors]

NoAstResult == [kind |-> "None", len |-> Bytes(0), err |-> ""]

\* entered: the module of the running module_diagnostics query; module, ast:
\* the GetAstBytes being answered.
NoRequest == [entered |-> "", module |-> "", ast |-> NoAstResult]

-----------------------------------------------------------------------------
(* EqwalizerDiagnostics *)

\* FxHashMap<String, Vec<EqwalizerDiagnostic>> as a set of <<key, list>>
\* pairs with distinct keys.
Keys == {"x", "y"}
DiagLists == {<<"d1">>, <<"d2">>}

IsMap(m) == \A p \in m : \A q \in m : p[1] = q[1] => p = q
DiagMaps == {m \in SUBSET (Keys \X DiagLists) : IsMap(m)}
MapKeys(m) == {p[1] : p \in m}
MapGet(m, k) == (CHOOSE p \in m : p[1] = k)[2]

Diagnostics(m) == [tag |-> "Diagnostics", map |-> m, module |-> "", msg |-> ""]
NoAst(module) == [tag |-> "NoAst", map |-> {}, module |-> module, msg |-> ""]
Error(msg) == [tag |-> "Error", map |-> {}, module |-> "", msg |-> msg]
\* No value: the function has not returned.
None == [tag |-> "None", map |-> {}, module |-> "", msg |-> ""]

\* The outcome is NoAst or Error.
Failed(o) == o.tag \in {"NoAst", "Error"}

\* impl Default for EqwalizerDiagnostics
default == Diagnostics({})

\* extend, with the list of a duplicate key appended to the old one.
extend_appending(diags, other_diags) ==
    {p \in diags : p[1] \notin MapKeys(other_diags)}
    \cup {<<p[1], (IF p[1] \in MapKeys(diags) THEN MapGet(diags, p[1]) ELSE <<>>)
                   \o p[2]>> : p \in other_diags}

\* HashMap::extend: every pair of other is inserted, replacing the pair of
\* the same key.
extend(diags, other_diags) ==
    {p \in diags : p[1] \notin MapKeys(other_diags)} \cup other_diags

\* combine, with NoAst on the right of Diagnostics dropped.
combine_dropping_noast(self, other) ==
    CASE self.tag = "NoAst" -> self
      [] self.tag = "Error" -> self
      [] OTHER ->
            CASE other.tag = "Diagnostics" ->
                    Diagnostics({p \in self.map : p[1] \notin MapKeys(other.map)}
                                \cup other.map)
              [] other.tag = "Error" -> other
              [] OTHER -> self

\* combine, with the right operand winning when it is NoAst or Error.
combine_right_absorbing(self, other) ==
    CASE other.tag \in {"NoAst", "Error"} -> other
      [] self.tag \in {"NoAst", "Error"} -> self
      [] OTHER -> Diagnostics({p \in self.map : p[1] \notin MapKeys(other.map)}
                              \cup other.map)

\* EqwalizerDiagnostics::combine(self, other)
combine(self, other) ==
    CASE self.tag = "NoAst" -> self
      [] self.tag = "Error" -> self
      [] OTHER ->
            CASE other.tag = "Diagnostics" ->
                    Diagnostics(extend(self.map, other.map))
              [] OTHER -> other

-----------------------------------------------------------------------------
(* The log *)

\* A call: who made it (the batch loop, the shell top-level loop, the
\* per-module query), what was called, and what went through it.
Ev(by, op, tag, module, n, ok, d) ==
    [by |-> by, op |-> op, tag |-> tag, module |-> module, n |-> n,
     ok |-> ok, d |-> d, res |-> "", err |-> ""]

\* An AST query made for a GetAstBytes, with what it returned.
EvQuery(by, format, module, ast) ==
    [by |-> by, op |-> "query", tag |-> QueryOf[format], module |-> module,
     n |-> ast.len, ok |-> TRUE, d |-> {}, res |-> ast.kind, err |-> ast.err]

\* The transitive-stub query made for a module of a Dependencies, with what
\* it returned.
EvPrefetch(by, module, ast) ==
    [by |-> by, op |-> "prefetch", tag |-> QueryOf["TransitiveStub"],
     module |-> module, n |-> ast.len, ok |-> TRUE, d |-> {},
     res |-> ast.kind, err |-> ast.err]

\* ast_bytes.len().try_into()? when the length does not fit.
EvTryInto(by, len) ==
    [by |-> by, op |-> "try_into", tag |-> "", module |-> "", n |-> len,
     ok |-> FALSE, d |-> {}, res |-> "", err |-> ""]

\* Messages of the child (MsgFromEqWAlizer).
GetAstBytes(module, format) ==
    [tag |-> "GetAstBytes", module |-> module, format |-> format, d |-> {},
     modules |-> <<>>]
EqwalizingStart(module) ==
    [tag |-> "EqwalizingStart", module |-> module, format |-> "", d |-> {},
     modules |-> <<>>]
EqwalizingDone(module) ==
    [tag |-> "EqwalizingDone", module |-> module, format |-> "", d |-> {},
     modules |-> <<>>]
EnteringModule(module) ==
    [tag |-> "EnteringModule", module |-> module, format |-> "", d |-> {},
     modules |-> <<>>]
Dependencies(modules) ==
    [tag |-> "Dependencies", module |-> "", format |-> "", d |-> {},
     modules |-> modules]
Done(d) ==
    [tag |-> "Done", module |-> "", format |-> "", d |-> d, modules |-> <<>>]

\* The diagnostics maps the modelled child reports.
DoneMaps == {{<<"x", <<"d1">>>>}, {<<"x", <<"d2">>>>, <<"y", <<"d1">>>>}}

\* What the modelled child sends to the batch loop,
BatchMsgs ==
    {GetAstBytes("m1", "ConvertedForms"), GetAstBytes("m2", "TransitiveStub"),
     EqwalizingStart("m1"), EqwalizingDone("m2"), EnteringModule("m1"),
     Dependencies(<<"m2", "m1">>)}
    \cup {Done(d) : d \in DoneMaps \cup {{}}}

\* to the shell top-level loop,
TopMsgs ==
    {EnteringModule(m) : m \in Modules}
    \cup {EqwalizingStart("m1"), GetAstBytes("m1", "ConvertedForms"),
          Dependencies(<<"m2", "m1">>), Done({<<"y", <<"d2">>>>})}

\* and to the shell per-module loop.
QueryMsgs ==
    {GetAstBytes("m2", "TransitiveStub"), EqwalizingStart("m1"),
     EnteringModule("m1"), Dependencies(<<"m2", "m1">>)}
    \cup {Done(d) : d \in DoneMaps}

ChildMsgs == BatchMsgs \cup TopMsgs \cup QueryMsgs

\* anyhow errors, by their text.
IoError == "io error"
SpawnError == "starting eqWAlizer process"
OverflowError == "out of range integral type conversion attempted"

-----------------------------------------------------------------------------
Init ==
    /\ shell \in BOOLEAN
    /\ pc = "init"
    /\ cancelled = FALSE
    /\ log = <<>>
    /\ cur = NoRequest
    /\ diagnostics = None
    /\ mres = None
    /\ mresults = <<>>
    /\ result = None
    /\ registry = {}
    /\ memo = [m \in Modules |-> None]
    /\ lock = "free"
    /\ nrecv = 0
    /\ served = {}
    /\ nenter = 0
    /\ nexit = 0
    /\ limit = MaxMsgs
    /\ prefetched = {}
    /\ nlock = 0
    /\ nelp = 0
    /\ opened = <<>>
    /\ untracked = FALSE
    /\ late = <<>>
    /\ nask = 0
    /\ nans = 0
    /\ ignored = FALSE
    /\ pc2 = "off"
    /\ cur2 = NoRequest
    /\ mres2 = None
    /\ args = <<>>
    /\ vals = <<>>

\* The calls started once the cancellation has been signalled.
Late(ops) == IF cancelled THEN late \o ops ELSE late

\* The engine signals cancellation (a new revision is pending).
Cancel ==
    /\ ~cancelled
    /\ pc \notin {"init", "done", "unwound"}
    /\ cancelled' = TRUE
    /\ UNCHANGED <<untracked, late, nask, nans, ignored, pc2, cur2, mres2>>
    /\ UNCHANGED <<shell, pc, log, cur, diagnostics, mres, mresults, result,
                   registry, memo, lock, nrecv, served, nenter, nexit, args,
                   vals, limit,
                   prefetched, nlock, nelp, opened>>

-----------------------------------------------------------------------------
(* Eqwalizer::typecheck *)

\* typecheck returns: Ok(diags) => diags, Err(err) => Error(format!(err)).
Return(r) ==
    /\ result' = r
    /\ pc' = "done"

\* shell_typecheck with report_untracked_read moved after the spawn's `?`.
typecheck_reporting_after_spawn ==
    /\ pc = "init"
    /\ \E ok \in BOOLEAN :
        LET by == IF shell THEN "top" ELSE "batch"
            reported ==
                IF shell /\ ok
                THEN <<Ev("top", "report_untracked_read", "", "", Bytes(0), TRUE, {})>>
                ELSE <<>>
        IN  /\ log' = log \o <<Ev(by, "from_command", "", "", Bytes(0), ok, {})>>
                          \o reported
            /\ untracked' = (untracked \/ (shell /\ ok))
            /\ IF ok
               THEN /\ pc' = IF shell THEN "s_check" ELSE "b_check"
                    /\ diagnostics' = IF shell THEN default ELSE None
                    /\ result' = result
               ELSE /\ Return(Error(SpawnError))
                    /\ diagnostics' = diagnostics
    /\ UNCHANGED <<late, nask, nans, ignored, pc2, cur2, mres2>>
    /\ UNCHANGED <<shell, cancelled, cur, mres, mresults, registry, memo,
                   lock, nrecv, served, nenter, nexit, args, vals, limit,
                   prefetched, nlock, nelp, opened>>

\* Builds the command and enters shell_typecheck or do_typecheck, up to the
\* spawn of the child (IpcHandle::from_command), which can fail.
typecheck ==
    /\ pc = "init"
    /\ \E ok \in BOOLEAN :
        LET by == IF shell THEN "top" ELSE "batch"
            reported ==
                IF shell
                THEN <<Ev("top", "report_untracked_read", "", "", Bytes(0), TRUE, {})>>
                ELSE <<>>
        IN  /\ log' = log \o reported
                          \o <<Ev(by, "from_command", "", "", Bytes(0), ok, {})>>
            /\ untracked' = (untracked \/ shell)
            /\ IF ok
               THEN /\ pc' = IF shell THEN "s_check" ELSE "b_check"
                    /\ diagnostics' = IF shell THEN default ELSE None
                    /\ result' = result
               ELSE /\ Return(Error(SpawnError))
                    /\ diagnostics' = diagnostics
    /\ UNCHANGED <<late, nask, nans, ignored, pc2, cur2, mres2>>
    /\ UNCHANGED <<shell, cancelled, cur, mres, mresults, registry, memo,
                   lock, nrecv, served, nenter, nexit, args, vals, limit,
                   prefetched, nlock, nelp, opened>>

-----------------------------------------------------------------------------
(* do_typecheck: the batch loop *)

\* match ast: the message sent to the child for each arm.
do_typecheck_reply(ast) ==
    CASE ast.kind = "Ok" -> [tag |-> "GetAstBytesReply", n |-> ast.len]
      [] ast.kind = "ModuleNotFound" -> [tag |-> "GetAstBytesReply", n |-> Bytes(0)]
      [] ast.kind = "ParseError" -> [tag |-> "CannotCompleteRequest", n |-> Bytes(0)]
      [] OTHER -> [tag |-> "CannotCompleteRequest", n |-> Bytes(0)]

\* The catch-all arm returning NoAst like the ParseError arm.
do_typecheck_return_noast_for_any(ast, module) ==
    CASE ast.kind = "ParseError" -> NoAst(module)
      [] ast.kind = "Other" -> NoAst(module)
      [] OTHER -> None

\* match ast: what the arm returns once its message is sent (None: the
\* loop goes on).
do_typecheck_return(ast, module) ==
    CASE ast.kind = "ParseError" -> NoAst(module)
      [] ast.kind = "Other" -> Error(ast.err)
      [] OTHER -> None

\* The Ok arm without its send_bytes.
do_typecheck_never_sends_bytes(ast) == FALSE

\* match ast: the arm that calls send_bytes after the newline.
do_typecheck_sends_bytes(ast) == ast.kind = "Ok"

\* The match without its Done arm: Done falls to the catch-all.
do_typecheck_arm_without_done(msg) ==
    CASE msg.tag = "EqwalizingStart" -> "eqwalizing_start"
      [] msg.tag = "EqwalizingDone" -> "eqwalizing_done"
      [] OTHER -> "ignore"

\* The catch-all arm ending the loop.
do_typecheck_arm_stopping_on_unknown(msg) ==
    CASE msg.tag = "EqwalizingStart" -> "eqwalizing_start"
      [] msg.tag = "EqwalizingDone" -> "eqwalizing_done"
      [] OTHER -> "return"

\* What the loop does with a received message that is no GetAstBytes.
do_typecheck_arm(msg) ==
    CASE msg.tag = "EqwalizingStart" -> "eqwalizing_start"
      [] msg.tag = "EqwalizingDone" -> "eqwalizing_done"
      [] msg.tag = "Done" -> "return"
      [] OTHER -> "ignore"

\* The loop with a check that never unwinds.
do_typecheck_check_ignoring_cancellation ==
    /\ pc = "b_check"
    /\ log' = <<Ev("batch", "unwind_if_cancelled", "", "", Bytes(0), TRUE, {})>>
    /\ pc' = "b_recv"
    /\ UNCHANGED <<untracked, late, nask, nans, ignored, pc2, cur2, mres2>>
    /\ UNCHANGED <<shell, cancelled, cur, diagnostics, mres, mresults,
                   result, registry, memo, lock, nrecv, served, nenter,
                   nexit, args, vals, limit,
                   prefetched, nlock, nelp, opened>>

\* loop { db.unwind_if_cancelled();
do_typecheck_check ==
    /\ pc = "b_check"
    /\ log' = <<Ev("batch", "unwind_if_cancelled", "", "", Bytes(0), TRUE, {})>>
    /\ pc' = IF cancelled THEN "unwound" ELSE "b_recv"
    /\ UNCHANGED <<untracked, late, nask, nans, ignored, pc2, cur2, mres2>>
    /\ UNCHANGED <<shell, cancelled, cur, diagnostics, mres, mresults,
                   result, registry, memo, lock, nrecv, served, nenter,
                   nexit, args, vals, limit,
                   prefetched, nlock, nelp, opened>>

\* A failed receive retried instead of returned.
do_typecheck_receive_fails_retrying ==
    /\ pc = "b_recv"
    /\ log' = Append(log, Ev("batch", "receive", "", "", Bytes(0), FALSE, {}))
    /\ pc' = "b_check"
    /\ late' = Late(<<"receive">>)
    /\ UNCHANGED <<untracked, nask, nans, ignored, pc2, cur2, mres2>>
    /\ UNCHANGED <<shell, cancelled, cur, diagnostics, mres, mresults, result,
                   registry, memo, lock, nrecv, served, nenter, nexit, args,
                   vals, limit,
                   prefetched, nlock, nelp, opened>>

\* handle.receive()? fails
do_typecheck_receive_fails ==
    /\ pc = "b_recv"
    /\ log' = Append(log, Ev("batch", "receive", "", "", Bytes(0), FALSE, {}))
    /\ Return(Error(IoError))
    /\ late' = Late(<<"receive">>)
    /\ UNCHANGED <<untracked, nask, nans, ignored, pc2, cur2, mres2>>
    /\ UNCHANGED <<shell, cancelled, cur, diagnostics, mres, mresults,
                   registry, memo, lock, nrecv, served, nenter, nexit, args,
                   vals, limit,
                   prefetched, nlock, nelp, opened>>

\* handle.receive()? yields GetAstBytes: the AST query is made; a length
\* that does not fit u32 ends the function (try_into()?).
do_typecheck_GetAstBytes ==
    /\ pc = "b_recv"
    /\ nrecv < limit
    /\ \E msg \in BatchMsgs, ast \in AstResults :
        /\ msg.tag = "GetAstBytes"
        /\ log' = log \o
              <<Ev("batch", "receive", msg.tag, msg.module, Bytes(0), TRUE, {}),
                EvQuery("batch", msg.format, msg.module, ast)>>
              \o (IF ast.kind = "Ok" /\ ~FitsU32(ast.len)
                  THEN <<EvTryInto("batch", ast.len)>> ELSE <<>>)
        /\ served' = served \cup {ast.kind}
        /\ IF ast.kind = "Ok" /\ ~FitsU32(ast.len)
           THEN /\ Return(Error(OverflowError))
                /\ cur' = cur
           ELSE /\ cur' = [entered |-> "", module |-> msg.module, ast |-> ast]
                /\ pc' = "b_reply"
                /\ result' = result
    /\ nrecv' = nrecv + 1
    /\ late' = Late(<<"receive">>)
    /\ nask' = nask + 1
    /\ UNCHANGED <<untracked, nans, ignored, pc2, cur2, mres2>>
    /\ UNCHANGED <<shell, cancelled, diagnostics, mres, mresults, registry,
                   memo, lock, nenter, nexit, args, vals, limit,
                   prefetched, nlock, nelp, opened>>

\* handle.receive()? yields any other message.
do_typecheck_receive ==
    /\ pc = "b_recv"
    /\ nrecv < limit
    /\ \E msg \in BatchMsgs :
        /\ msg.tag # "GetAstBytes"
        /\ LET arm == do_typecheck_arm(msg)
               recv == Ev("batch", "receive", msg.tag, msg.module, Bytes(0), TRUE, msg.d)
           IN  /\ log' = IF arm \in {"eqwalizing_start", "eqwalizing_done"}
                         THEN log \o <<recv, Ev("batch", arm, "", msg.module, Bytes(0), TRUE, {})>>
                         ELSE Append(log, recv)
               /\ ignored' = (ignored \/ arm = "ignore")
               /\ IF arm = "return"
                  THEN Return(Diagnostics(msg.d))
                  ELSE /\ pc' = "b_check"
                       /\ result' = result
    /\ nrecv' = nrecv + 1
    /\ late' = Late(<<"receive">>)
    /\ UNCHANGED <<untracked, nask, nans, pc2, cur2, mres2>>
    /\ UNCHANGED <<shell, cancelled, cur, diagnostics, mres, mresults,
                   registry, memo, lock, served, nenter, nexit, args, vals, limit,
                   prefetched, nlock, nelp, opened>>

\* handle.send(reply)? of the arm, and the arm's return if it has one.
do_typecheck_send ==
    /\ pc = "b_reply"
    /\ \E ok \in BOOLEAN :
        LET reply == do_typecheck_reply(cur.ast)
            ret == do_typecheck_return(cur.ast, cur.module)
        IN  /\ log' = Append(log, Ev("batch", "send", reply.tag, "", reply.n, ok, {}))
            /\ nans' = IF ok THEN nans + 1 ELSE nans
            /\ IF ~ok THEN Return(Error(IoError))
               ELSE IF ret # None THEN Return(ret)
               ELSE /\ pc' = "b_newline"
                    /\ result' = result
    /\ late' = Late(<<"send">>)
    /\ UNCHANGED <<untracked, nask, ignored, pc2, cur2, mres2>>
    /\ UNCHANGED <<shell, cancelled, cur, diagnostics, mres, mresults,
                   registry, memo, lock, nrecv, served, nenter, nexit, args,
                   vals, limit,
                   prefetched, nlock, nelp, opened>>

\* The reply sent again after the newline.
do_typecheck_receive_newline_then_reply ==
    /\ pc = "b_newline"
    /\ log' = Append(log, Ev("batch", "receive_newline", "", "", Bytes(0), TRUE, {}))
    /\ pc' = "b_reply"
    /\ late' = Late(<<"receive_newline">>)
    /\ UNCHANGED <<untracked, nask, nans, ignored, pc2, cur2, mres2>>
    /\ UNCHANGED <<shell, cancelled, cur, diagnostics, mres, mresults, result,
                   registry, memo, lock, nrecv, served, nenter, nexit, args,
                   vals, limit,
                   prefetched, nlock, nelp, opened>>

\* handle.receive_newline()?
do_typecheck_receive_newline ==
    /\ pc = "b_newline"
    /\ \E ok \in BOOLEAN :
        /\ log' = Append(log, Ev("batch", "receive_newline", "", "", Bytes(0), ok, {}))
        /\ IF ~ok
           THEN /\ Return(Error(IoError))
                /\ cur' = cur
           ELSE IF do_typecheck_sends_bytes(cur.ast)
           THEN /\ pc' = "b_bytes"
                /\ UNCHANGED <<result, cur>>
           ELSE /\ pc' = "b_check"
                /\ cur' = NoRequest
                /\ result' = result
    /\ late' = Late(<<"receive_newline">>)
    /\ UNCHANGED <<untracked, nask, nans, ignored, pc2, cur2, mres2>>
    /\ UNCHANGED <<shell, cancelled, diagnostics, mres, mresults, registry,
                   memo, lock, nrecv, served, nenter, nexit, args, vals, limit,
                   prefetched, nlock, nelp, opened>>

\* handle.send_bytes(&ast_bytes)?
do_typecheck_send_bytes ==
    /\ pc = "b_bytes"
    /\ \E ok \in BOOLEAN :
        /\ log' = Append(log, Ev("batch", "send_bytes", "", "", cur.ast.len, ok, {}))
        /\ IF ~ok
           THEN /\ Return(Error(IoError))
                /\ cur' = cur
           ELSE /\ pc' = "b_check"
                /\ cur' = NoRequest
                /\ result' = result
    /\ late' = Late(<<"send_bytes">>)
    /\ UNCHANGED <<untracked, nask, nans, ignored, pc2, cur2, mres2>>
    /\ UNCHANGED <<shell, cancelled, diagnostics, mres, mresults, registry,
                   memo, lock, nrecv, served, nenter, nexit, args, vals, limit,
                   prefetched, nlock, nelp, opened>>

-----------------------------------------------------------------------------
(* shell_typecheck: the shell top-level loop *)

\* What the top-level loop does with a received message.
shell_typecheck_arm(msg) ==
    CASE msg.tag = "EnteringModule" -> "module_diagnostics"
      [] msg.tag = "Done" -> "return"
      [] OTHER -> "ignore"

\* diagnostics = diags: the accumulator overwritten.
shell_typecheck_accumulate_overwriting(acc, diags) == diags

\* diagnostics = diagnostics.combine(&diags)
shell_typecheck_accumulate(acc, diags) == combine(acc, diags)

\* loop { db.unwind_if_cancelled();
shell_typecheck_check ==
    /\ pc = "s_check"
    /\ log' = <<Ev("top", "unwind_if_cancelled", "", "", Bytes(0), TRUE, {})>>
    /\ pc' = IF cancelled THEN "unwound" ELSE "s_recv"
    /\ UNCHANGED <<untracked, late, nask, nans, ignored, pc2, cur2, mres2>>
    /\ UNCHANGED <<shell, cancelled, cur, diagnostics, mres, mresults,
                   result, registry, memo, lock, nrecv, served, nenter,
                   nexit, args, vals, limit,
                   prefetched, nlock, nelp, opened>>

\* handle.lock().receive()? fails; the lock guard is a temporary of the
\* statement.
shell_typecheck_receive_fails ==
    /\ pc = "s_recv"
    /\ lock = "free"
    /\ log' = Append(log, Ev("top", "receive", "", "", Bytes(0), FALSE, {}))
    /\ Return(Error(IoError))
    /\ late' = Late(<<"receive">>)
    /\ UNCHANGED <<untracked, nask, nans, ignored, pc2, cur2, mres2>>
    /\ UNCHANGED <<shell, cancelled, cur, diagnostics, mres, mresults,
                   registry, memo, lock, nrecv, served, nenter, nexit, args,
                   vals, limit,
                   prefetched, nlock, nelp, opened>>

\* match handle.lock().receive()? { .. }: the guard, a temporary of the
\* matched expression, kept to the end of the arm.
shell_typecheck_receive_holding_guard ==
    /\ pc = "s_recv"
    /\ lock = "free"
    /\ nrecv < limit
    /\ \E msg \in TopMsgs :
        LET arm == shell_typecheck_arm(msg)
            recv == Ev("top", "receive", msg.tag, msg.module, Bytes(0), TRUE, msg.d)
        IN  /\ ignored' = (ignored \/ arm = "ignore")
            /\ CASE arm = "module_diagnostics" ->
                    /\ log' = log \o <<recv,
                          Ev("top", "set_module_ipc_handle", "", msg.module,
                             Bytes(0), TRUE, {})>>
                    /\ registry' = registry \cup {msg.module}
                    /\ nenter' = nenter + 1
                    /\ cur' = [entered |-> msg.module, module |-> "",
                               ast |-> NoAstResult]
                    /\ pc' = "m_call"
                    /\ lock' = "top"
                    /\ result' = result
              [] arm = "return" ->
                    /\ log' = Append(log, recv)
                    /\ Return(diagnostics)
                    /\ UNCHANGED <<registry, cur, nenter, lock>>
              [] OTHER ->
                    /\ log' = Append(log, recv)
                    /\ pc' = "s_check"
                    /\ UNCHANGED <<registry, cur, result, nenter, lock>>
    /\ nrecv' = nrecv + 1
    /\ late' = Late(<<"receive">>)
    /\ UNCHANGED <<untracked, nask, nans, pc2, cur2, mres2>>
    /\ UNCHANGED <<shell, cancelled, diagnostics, mres, mresults, memo,
                   served, nexit, args, vals, limit,
                   prefetched, nlock, nelp, opened>>

\* handle.lock().receive()? and the match on the message; on EnteringModule
\* the handle is registered and db.module_diagnostics is called.
shell_typecheck_receive ==
    /\ pc = "s_recv"
    /\ lock = "free"
    /\ nrecv < limit
    /\ \E msg \in TopMsgs :
        LET arm == shell_typecheck_arm(msg)
            recv == Ev("top", "receive", msg.tag, msg.module, Bytes(0), TRUE, msg.d)
        IN  /\ ignored' = (ignored \/ arm = "ignore")
            /\ CASE arm = "module_diagnostics" ->
                    /\ log' = log \o <<recv,
                          Ev("top", "set_module_ipc_handle", "", msg.module,
                             Bytes(0), TRUE, {})>>
                    /\ registry' = registry \cup {msg.module}
                    /\ nenter' = nenter + 1
                    /\ cur' = [entered |-> msg.module, module |-> "",
                               ast |-> NoAstResult]
                    /\ pc' = "m_call"
                    /\ result' = result
              [] arm = "return" ->
                    /\ log' = Append(log, recv)
                    /\ Return(diagnostics)
                    /\ UNCHANGED <<registry, cur, nenter>>
              [] OTHER ->
                    /\ log' = Append(log, recv)
                    /\ pc' = "s_check"
                    /\ UNCHANGED <<registry, cur, result, nenter>>
    /\ nrecv' = nrecv + 1
    /\ late' = Late(<<"receive">>)
    /\ UNCHANGED <<untracked, nask, nans, pc2, cur2, mres2>>
    /\ UNCHANGED <<shell, cancelled, diagnostics, mres, mresults, memo, lock,
                   served, nexit, args, vals, limit,
                   prefetched, nlock, nelp, opened>>

\* The top-level loop leaving the module only after a Diagnostics result.
shell_typecheck_exit_after_success ==
    /\ pc = "s_exit"
    /\ lock = "free"
    /\ \E ok \in BOOLEAN :
        IF Failed(mres)
        THEN /\ diagnostics' = shell_typecheck_accumulate(diagnostics, mres)
             /\ pc' = "s_check"
             /\ UNCHANGED <<log, result, nexit>>
        ELSE /\ log' = Append(log, Ev("top", "send", "ELPExitingModule", "",
                                      Bytes(0), ok, {}))
             /\ nexit' = nexit + 1
             /\ IF ok
                THEN /\ diagnostics' = shell_typecheck_accumulate(diagnostics, mres)
                     /\ pc' = "s_check"
                     /\ result' = result
                ELSE /\ Return(Error(IoError))
                     /\ diagnostics' = diagnostics
    /\ late' = IF Failed(mres) THEN late ELSE Late(<<"send">>)
    /\ opened' = IF Failed(mres) THEN opened ELSE <<>>
    /\ UNCHANGED <<untracked, nask, nans, ignored, pc2, cur2, mres2>>
    /\ UNCHANGED <<shell, cancelled, cur, mres, mresults, registry, memo, lock,
                   nrecv, served, nenter, args, vals, limit,
                   prefetched, nlock, nelp>>

\* handle.lock().send(&ELPExitingModule)?; diagnostics.combine(&diags)
shell_typecheck_exit ==
    /\ pc = "s_exit"
    /\ lock = "free"
    /\ \E ok \in BOOLEAN :
        /\ log' = Append(log, Ev("top", "send", "ELPExitingModule", "", Bytes(0), ok, {}))
        /\ IF ok
           THEN /\ diagnostics' = shell_typecheck_accumulate(diagnostics, mres)
                /\ pc' = "s_check"
                /\ result' = result
           ELSE /\ Return(Error(IoError))
                /\ diagnostics' = diagnostics
    /\ nexit' = nexit + 1
    /\ late' = Late(<<"send">>)
    /\ opened' = <<>>
    /\ UNCHANGED <<untracked, nask, nans, ignored, pc2, cur2, mres2>>
    /\ UNCHANGED <<shell, cancelled, cur, mres, mresults, registry, memo,
                   lock, nrecv, served, nenter, args, vals, limit,
                   prefetched, nlock, nelp>>

-----------------------------------------------------------------------------
(* module_diagnostics: the memoized query *)

\* The query's value reaches shell_typecheck (.0 of the pair; the timestamp
\* is not modelled).
ModuleReturn(r) ==
    /\ mres' = r
    /\ mresults' = Append(mresults, r)
    /\ pc' = "s_exit"
    /\ cur' = NoRequest

\* The function ran to its end: the engine stores the value; the handle
\* guard is dropped. Err(err) => Error(format!(err)).
ModuleComputed(r) ==
    /\ ModuleReturn(r)
    /\ memo' = [memo EXCEPT ![cur.entered] = r]
    /\ lock' = "free"

\* A memo hit that still tells the child the module is entered.
module_diagnostics_memoized_entering ==
    /\ pc = "m_call"
    /\ memo[cur.entered] # None
    /\ log' = log \o <<Ev("engine", "memoized", "", cur.entered, Bytes(0), TRUE, {}),
                     Ev("query", "send", "ELPEnteringModule", "", Bytes(0), TRUE, {})>>
    /\ nelp' = nelp + 1
    /\ opened' = Append(opened, "query")
    /\ ModuleReturn(memo[cur.entered])
    /\ UNCHANGED <<untracked, late, nask, nans, ignored, pc2, cur2, mres2>>
    /\ UNCHANGED <<shell, cancelled, diagnostics, result, registry, memo,
                   lock, nrecv, served, nenter, nexit, args, vals, limit,
                   prefetched, nlock>>

\* The engine answers from its memo (the stored value is still valid in
\* this revision): module_diagnostics does not run.
module_diagnostics_memoized ==
    /\ pc = "m_call"
    /\ memo[cur.entered] # None
    /\ log' = Append(log, Ev("engine", "memoized", "", cur.entered, Bytes(0), TRUE, {}))
    /\ ModuleReturn(memo[cur.entered])
    /\ UNCHANGED <<untracked, late, nask, nans, ignored, pc2, cur2, mres2>>
    /\ UNCHANGED <<shell, cancelled, diagnostics, result, registry, memo,
                   lock, nrecv, served, nenter, nexit, args, vals, limit,
                   prefetched, nlock, nelp, opened>>

-----------------------------------------------------------------------------
(* get_module_diagnostics: the shell per-module loop *)

\* ModuleNotFound refused like the other errors.
get_module_diagnostics_reply_refusing_not_found(ast) ==
    CASE ast.kind = "Ok" -> [tag |-> "GetAstBytesReply", n |-> ast.len]
      [] OTHER -> [tag |-> "CannotCompleteRequest", n |-> Bytes(0)]

\* match ast: the message sent to the child for each arm.
get_module_diagnostics_reply(ast) ==
    CASE ast.kind = "Ok" -> [tag |-> "GetAstBytesReply", n |-> ast.len]
      [] ast.kind = "ModuleNotFound" -> [tag |-> "GetAstBytesReply", n |-> Bytes(0)]
      [] ast.kind = "ParseError" -> [tag |-> "CannotCompleteRequest", n |-> Bytes(0)]
      [] OTHER -> [tag |-> "CannotCompleteRequest", n |-> Bytes(0)]

\* The ParseError arm returning an Error instead of NoAst.
get_module_diagnostics_return_error_for_parse(ast, module) ==
    CASE ast.kind = "ParseError" -> Error("parse error")
      [] ast.kind = "Other" -> Error(ast.err)
      [] OTHER -> None

\* match ast: what the arm returns once its message is sent (None: the
\* loop goes on).
get_module_diagnostics_return(ast, module) ==
    CASE ast.kind = "ParseError" -> NoAst(module)
      [] ast.kind = "Other" -> Error(ast.err)
      [] OTHER -> None

\* The Ok arm's send_bytes made in the ModuleNotFound arm as well.
get_module_diagnostics_sends_bytes_when_not_found(ast) ==
    ast.kind \in {"Ok", "ModuleNotFound"}

\* match ast: the arm that calls send_bytes after the newline.
get_module_diagnostics_sends_bytes(ast) == ast.kind = "Ok"

\* The loop without its Dependencies arm.
get_module_diagnostics_arm_without_prefetch(msg) ==
    CASE msg.tag = "EqwalizingStart" -> "eqwalizing_start"
      [] msg.tag = "EqwalizingDone" -> "eqwalizing_done"
      [] msg.tag = "Done" -> "return"
      [] OTHER -> "ignore"

\* What the loop does with a received message that is no GetAstBytes.
get_module_diagnostics_arm(msg) ==
    CASE msg.tag = "EqwalizingStart" -> "eqwalizing_start"
      [] msg.tag = "EqwalizingDone" -> "eqwalizing_done"
      [] msg.tag = "Done" -> "return"
      [] msg.tag = "Dependencies" -> "prefetch"
      [] OTHER -> "ignore"

\* What db.transitive_stub_bytes returns to a prefetch.
PrefetchResults == {a \in AstResults : a.len = Bytes(0)}

\* modules.iter().for_each(|module| _ = db.transitive_stub_bytes(..)):
\* the queries made, results[i] being what the i-th one returns.
RECURSIVE Prefetch(_, _)
Prefetch(modules, results) ==
    IF modules = <<>> THEN <<>>
    ELSE <<EvPrefetch("query", Head(modules), Head(results))>>
         \o Prefetch(Tail(modules), Tail(results))

\* get_module_diagnostics using the handle without taking its guard.
get_module_diagnostics_without_lock ==
    /\ pc = "m_call"
    /\ IF cur.entered \notin registry
       THEN /\ ModuleReturn(Error("no eqWAlizer handle for module"))
            /\ memo' = [memo EXCEPT ![cur.entered] =
                                        Error("no eqWAlizer handle for module")]
            /\ UNCHANGED <<log, lock>>
       ELSE /\ lock' = lock
            /\ pc' = "q_enter"
            /\ log' = Append(log, Ev("query", "lock", "", cur.entered, Bytes(0), TRUE, {}))
            /\ UNCHANGED <<mres, mresults, cur, memo>>
    /\ served' = {}
    /\ prefetched' = {}
    /\ nlock' = IF cur.entered \in registry THEN nlock + 1 ELSE nlock
    /\ UNCHANGED <<untracked, late, nask, nans, ignored, pc2, cur2, mres2>>
    /\ UNCHANGED <<shell, cancelled, diagnostics, result, registry, nrecv,
                   nenter, nexit, args, vals, limit, nelp, opened>>

\* Positions at which a thread (the one of typecheck, a second one) is in
\* get_module_diagnostics with the handle's guard; the engine lets one
\* thread at a time compute the query of a key.
QPcs == {"q_enter", "q_check", "q_recv", "q_reply", "q_newline", "q_bytes"}
TPcs == {"t_enter", "t_check", "t_recv", "t_reply", "t_newline", "t_bytes"}

\* db.module_ipc_handle(..).ok_or(..)?; handle_mutex.lock()
get_module_diagnostics ==
    /\ pc = "m_call"
    /\ ~(pc2 \in TPcs /\ cur2.entered = cur.entered)
    /\ IF cur.entered \notin registry
       THEN /\ ModuleReturn(Error("no eqWAlizer handle for module"))
            /\ memo' = [memo EXCEPT ![cur.entered] =
                                        Error("no eqWAlizer handle for module")]
            /\ UNCHANGED <<log, lock>>
       ELSE /\ lock = "free"
            /\ lock' = "query"
            /\ pc' = "q_enter"
            /\ log' = Append(log, Ev("query", "lock", "", cur.entered, Bytes(0), TRUE, {}))
            /\ UNCHANGED <<mres, mresults, cur, memo>>
    /\ served' = {}
    /\ prefetched' = {}
    /\ nlock' = IF cur.entered \in registry THEN nlock + 1 ELSE nlock
    /\ UNCHANGED <<untracked, late, nask, nans, ignored, pc2, cur2, mres2>>
    /\ UNCHANGED <<shell, cancelled, diagnostics, result, registry, nrecv,
                   nenter, nexit, args, vals, limit, nelp, opened>>

\* The first iteration entered below its cancellation check.
get_module_diagnostics_enter_skipping_check ==
    /\ pc = "q_enter"
    /\ \E ok \in BOOLEAN :
        /\ log' = Append(log, Ev("query", "send", "ELPEnteringModule", "", Bytes(0), ok, {}))
        /\ IF ok
           THEN /\ pc' = "q_recv"
                /\ UNCHANGED <<mres, mresults, cur, memo, lock>>
           ELSE ModuleComputed(Error(IoError))
    /\ late' = Late(<<"send">>)
    /\ nelp' = nelp + 1
    /\ opened' = Append(opened, "query")
    /\ UNCHANGED <<untracked, nask, nans, ignored, pc2, cur2, mres2>>
    /\ UNCHANGED <<shell, cancelled, diagnostics, result, registry, nrecv,
                   served, nenter, nexit, args, vals, limit,
                   prefetched, nlock>>

\* handle.send(&ELPEnteringModule)?
get_module_diagnostics_enter ==
    /\ pc = "q_enter"
    /\ \E ok \in BOOLEAN :
        /\ log' = Append(log, Ev("query", "send", "ELPEnteringModule", "", Bytes(0), ok, {}))
        /\ IF ok
           THEN /\ pc' = "q_check"
                /\ UNCHANGED <<mres, mresults, cur, memo, lock>>
           ELSE ModuleComputed(Error(IoError))
    /\ late' = Late(<<"send">>)
    /\ nelp' = nelp + 1
    /\ opened' = Append(opened, "query")
    /\ UNCHANGED <<untracked, nask, nans, ignored, pc2, cur2, mres2>>
    /\ UNCHANGED <<shell, cancelled, diagnostics, result, registry, nrecv,
                   served, nenter, nexit, args, vals, limit,
                   prefetched, nlock>>

\* loop { db.unwind_if_cancelled(); the unwinding drops the handle guard.
get_module_diagnostics_check ==
    /\ pc = "q_check"
    /\ log' = <<Ev("query", "unwind_if_cancelled", "", "", Bytes(0), TRUE, {})>>
    /\ pc' = IF cancelled THEN "unwound" ELSE "q_recv"
    /\ lock' = IF cancelled THEN "free" ELSE lock
    /\ UNCHANGED <<untracked, late, nask, nans, ignored, pc2, cur2, mres2>>
    /\ UNCHANGED <<shell, cancelled, cur, diagnostics, mres, mresults,
                   result, registry, memo, nrecv, served, nenter, nexit,
                   args, vals, limit,
                   prefetched, nlock, nelp, opened>>

\* handle.receive()? fails; the return drops the handle guard.
get_module_diagnostics_receive_fails ==
    /\ pc = "q_recv"
    /\ log' = Append(log, Ev("query", "receive", "", "", Bytes(0), FALSE, {}))
    /\ ModuleComputed(Error(IoError))
    /\ late' = Late(<<"receive">>)
    /\ UNCHANGED <<untracked, nask, nans, ignored, pc2, cur2, mres2>>
    /\ UNCHANGED <<shell, cancelled, diagnostics, result, registry, nrecv,
                   served, nenter, nexit, args, vals, limit,
                   prefetched, nlock, nelp, opened>>

\* handle.receive()? yields GetAstBytes: the AST query is made; a length
\* that does not fit u32 ends the function (try_into()?).
get_module_diagnostics_GetAstBytes ==
    /\ pc = "q_recv"
    /\ nrecv < limit
    /\ \E msg \in QueryMsgs, ast \in AstResults :
        /\ msg.tag = "GetAstBytes"
        /\ log' = log \o
              <<Ev("query", "receive", msg.tag, msg.module, Bytes(0), TRUE, {}),
                EvQuery("query", msg.format, msg.module, ast)>>
              \o (IF ast.kind = "Ok" /\ ~FitsU32(ast.len)
                  THEN <<EvTryInto("query", ast.len)>> ELSE <<>>)
        /\ served' = served \cup {ast.kind}
        /\ IF ast.kind = "Ok" /\ ~FitsU32(ast.len)
           THEN ModuleComputed(Error(OverflowError))
           ELSE /\ cur' = [cur EXCEPT !.module = msg.module, !.ast = ast]
                /\ pc' = "q_reply"
                /\ UNCHANGED <<mres, mresults, memo, lock>>
    /\ nrecv' = nrecv + 1
    /\ late' = Late(<<"receive">>)
    /\ nask' = nask + 1
    /\ UNCHANGED <<untracked, nans, ignored, pc2, cur2, mres2>>
    /\ UNCHANGED <<shell, cancelled, diagnostics, result, registry, nenter,
                   nexit, args, vals, limit,
                   prefetched, nlock, nelp, opened>>

\* handle.receive()? yields any other message.
get_module_diagnostics_receive ==
    /\ pc = "q_recv"
    /\ nrecv < limit
    /\ \E msg \in QueryMsgs :
        /\ msg.tag # "GetAstBytes"
        /\ \E results \in [1 .. Len(msg.modules) -> PrefetchResults] :
           LET arm == get_module_diagnostics_arm(msg)
               recv == Ev("query", "receive", msg.tag, msg.module, Bytes(0), TRUE, msg.d)
           IN  /\ log' = CASE arm \in {"eqwalizing_start", "eqwalizing_done"} ->
                                log \o <<recv, Ev("query", arm, "", msg.module,
                                                  Bytes(0), TRUE, {})>>
                           [] arm = "prefetch" ->
                                log \o <<recv>> \o Prefetch(msg.modules, results)
                           [] OTHER -> Append(log, recv)
               /\ prefetched' = IF arm = "prefetch"
                                THEN prefetched \cup
                                     {results[i].kind = "Ok" : i \in DOMAIN results}
                                ELSE prefetched
               /\ ignored' = (ignored \/ arm = "ignore")
               /\ IF arm = "return"
                  THEN ModuleComputed(Diagnostics(msg.d))
                  ELSE /\ pc' = "q_check"
                       /\ UNCHANGED <<mres, mresults, cur, memo, lock>>
    /\ nrecv' = nrecv + 1
    /\ late' = Late(<<"receive">>)
    /\ UNCHANGED <<untracked, nask, nans, pc2, cur2, mres2>>
    /\ UNCHANGED <<shell, cancelled, diagnostics, result, registry, served,
                   nenter, nexit, args, vals, limit, nlock, nelp, opened>>

\* handle.send(reply)? of the arm, and the arm's return if it has one.
get_module_diagnostics_send ==
    /\ pc = "q_reply"
    /\ \E ok \in BOOLEAN :
        LET reply == get_module_diagnostics_reply(cur.ast)
            ret == get_module_diagnostics_return(cur.ast, cur.module)
        IN  /\ log' = Append(log, Ev("query", "send", reply.tag, "", reply.n, ok, {}))
            /\ nans' = IF ok THEN nans + 1 ELSE nans
            /\ IF ~ok THEN ModuleComputed(Error(IoError))
               ELSE IF ret # None THEN ModuleComputed(ret)
               ELSE /\ pc' = "q_newline"
                    /\ UNCHANGED <<mres, mresults, cur, memo, lock>>
    /\ late' = Late(<<"send">>)
    /\ UNCHANGED <<untracked, nask, ignored, pc2, cur2, mres2>>
    /\ UNCHANGED <<shell, cancelled, diagnostics, result, registry, nrecv,
                   served, nenter, nexit, args, vals, limit,
                   prefetched, nlock, nelp, opened>>

\* handle.receive_newline()?
get_module_diagnostics_receive_newline ==
    /\ pc = "q_newline"
    /\ \E ok \in BOOLEAN :
        /\ log' = Append(log, Ev("query", "receive_newline", "", "", Bytes(0), ok, {}))
        /\ IF ~ok
           THEN ModuleComputed(Error(IoError))
           ELSE IF get_module_diagnostics_sends_bytes(cur.ast)
           THEN /\ pc' = "q_bytes"
                /\ UNCHANGED <<mres, mresults, cur, memo, lock>>
           ELSE /\ pc' = "q_check"
                /\ cur' = [cur EXCEPT !.module = "", !.ast = NoAstResult]
                /\ UNCHANGED <<mres, mresults, memo, lock>>
    /\ late' = Late(<<"receive_newline">>)
    /\ UNCHANGED <<untracked, nask, nans, ignored, pc2, cur2, mres2>>
    /\ UNCHANGED <<shell, cancelled, diagnostics, result, registry, nrecv,
                   served, nenter, nexit, args, vals, limit,
                   prefetched, nlock, nelp, opened>>

\* handle.send_bytes(&ast_bytes)?
get_module_diagnostics_send_bytes ==
    /\ pc = "q_bytes"
    /\ \E ok \in BOOLEAN :
        /\ log' = Append(log, Ev("query", "send_bytes", "", "", cur.ast.len, ok, {}))
        /\ IF ~ok
           THEN ModuleComputed(Error(IoError))
           ELSE /\ pc' = "q_check"
                /\ cur' = [cur EXCEPT !.module = "", !.ast = NoAstResult]
                /\ UNCHANGED <<mres, mresults, memo, lock>>
    /\ late' = Late(<<"send_bytes">>)
    /\ UNCHANGED <<untracked, nask, nans, ignored, pc2, cur2, mres2>>
    /\ UNCHANGED <<shell, cancelled, diagnostics, result, registry, nrecv,
                   served, nenter, nexit, args, vals, limit,
                   prefetched, nlock, nelp, opened>>

-----------------------------------------------------------------------------
Next ==
    \/ Cancel
    \/ typecheck
    \/ do_typecheck_check
    \/ do_typecheck_receive_fails
    \/ do_typecheck_GetAstBytes
    \/ do_typecheck_receive
    \/ do_typecheck_send
    \/ do_typecheck_receive_newline
    \/ do_typecheck_send_bytes
    \/ shell_typecheck_check
    \/ shell_typecheck_receive_fails
    \/ shell_typecheck_receive
    \/ shell_typecheck_exit
    \/ module_diagnostics_memoized
    \/ get_module_diagnostics
    \/ get_module_diagnostics_enter
    \/ get_module_diagnostics_check
    \/ get_module_diagnostics_receive_fails
    \/ get_module_diagnostics_GetAstBytes
    \/ get_module_diagnostics_receive
    \/ get_module_diagnostics_send
    \/ get_module_diagnostics_receive_newline
    \/ get_module_diagnostics_send_bytes

Spec == Init /\ [][Next]_vars

-----------------------------------------------------------------------------
(* A second thread of the engine calling db.module_diagnostics while the   *)
(* shell-mode typecheck runs: the same get_module_diagnostics, on the      *)
(* handle found in the registry.                                           *)

\* What the modelled child sends while the second thread receives.
SecondMsgs ==
    {GetAstBytes("m2", "TransitiveStub"), EnteringModule("m1"),
     Done({<<"x", <<"d1">>>>})}

\* The AST query results the second thread meets.
SecondAstResults ==
    {a \in AstResults : a.kind # "Ok" \/ a.len \in {Bytes(0), TooLong}}

\* What the second thread's steps leave alone.
SecondFrame ==
    UNCHANGED <<shell, pc, cancelled, cur, diagnostics, mres, mresults,
                result, registry, served, nenter, nexit, untracked, args,
                vals, limit,
                prefetched>>

\* The query's value reaches the second thread.
SecondReturn(r) ==
    /\ mres2' = r
    /\ pc2' = "t_done"
    /\ cur2' = [cur2 EXCEPT !.module = "", !.ast = NoAstResult]

\* The function ran to its end on the second thread: the engine stores the
\* value and the handle guard is dropped.
SecondComputed(r) ==
    /\ SecondReturn(r)
    /\ memo' = [memo EXCEPT ![cur2.entered] = r]
    /\ lock' = "free"

\* db.module_diagnostics(project_id, module) is called; the engine lets one
\* thread at a time compute the query of a key.
second_module_diagnostics ==
    /\ pc2 = "t_idle"
    /\ \E m \in Modules :
        /\ cur2' = [entered |-> m, module |-> "", ast |-> NoAstResult]
        /\ pc2' = "t_call"
    /\ UNCHANGED <<log, memo, lock, nrecv, late, nask, nans, ignored, mres2>>
    /\ UNCHANGED <<nlock, nelp, opened>>
    /\ SecondFrame

\* The engine answers from its memo.
second_module_diagnostics_memoized ==
    /\ pc2 = "t_call"
    /\ memo[cur2.entered] # None
    /\ mres2' = memo[cur2.entered]
    /\ pc2' = "t_done"
    /\ UNCHANGED <<log, memo, lock, nrecv, late, nask, nans, ignored, cur2>>
    /\ UNCHANGED <<nlock, nelp, opened>>
    /\ SecondFrame

\* The guard taken and the loop entered without the lookup of the handle.
second_get_module_diagnostics_without_lookup ==
    /\ pc2 = "t_call"
    /\ ~(pc \in QPcs /\ cur.entered = cur2.entered)
    /\ lock = "free"
    /\ lock' = "query2"
    /\ pc2' = "t_enter"
    /\ log' = Append(log, Ev("query2", "lock", "", cur2.entered, Bytes(0), TRUE, {}))
    /\ nlock' = nlock + 1
    /\ UNCHANGED <<mres2, cur2, memo, nelp, opened>>
    /\ UNCHANGED <<nrecv, late, nask, nans, ignored>>
    /\ SecondFrame

\* db.module_ipc_handle(..).ok_or(..)?; handle_mutex.lock()
second_get_module_diagnostics ==
    /\ pc2 = "t_call"
    /\ ~(pc \in QPcs /\ cur.entered = cur2.entered)
    /\ IF cur2.entered \notin registry
       THEN /\ SecondReturn(Error("no eqWAlizer handle for module"))
            /\ memo' = [memo EXCEPT ![cur2.entered] =
                                        Error("no eqWAlizer handle for module")]
            /\ UNCHANGED <<log, lock>>
       ELSE /\ lock = "free"
            /\ lock' = "query2"
            /\ pc2' = "t_enter"
            /\ log' = Append(log, Ev("query2", "lock", "", cur2.entered, Bytes(0), TRUE, {}))
            /\ UNCHANGED <<mres2, cur2, memo>>
    /\ UNCHANGED <<nrecv, late, nask, nans, ignored>>
    /\ nlock' = IF cur2.entered \in registry THEN nlock + 1 ELSE nlock
    /\ UNCHANGED <<nelp, opened>>
    /\ SecondFrame

\* handle.send(&ELPEnteringModule)?
second_get_module_diagnostics_enter ==
    /\ pc2 = "t_enter"
    /\ \E ok \in BOOLEAN :
        /\ log' = Append(log, Ev("query2", "send", "ELPEnteringModule", "", Bytes(0), ok, {}))
        /\ IF ok
           THEN /\ pc2' = "t_check"
                /\ UNCHANGED <<mres2, cur2, memo, lock>>
           ELSE SecondComputed(Error(IoError))
    /\ late' = Late(<<"send">>)
    /\ UNCHANGED <<nrecv, nask, nans, ignored>>
    /\ nelp' = nelp + 1
    /\ opened' = Append(opened, "query2")
    /\ UNCHANGED nlock
    /\ SecondFrame

\* loop { db.unwind_if_cancelled(); the unwinding drops the handle guard.
second_get_module_diagnostics_check ==
    /\ pc2 = "t_check"
    /\ log' = <<Ev("query2", "unwind_if_cancelled", "", "", Bytes(0), TRUE, {})>>
    /\ pc2' = IF cancelled THEN "t_unwound" ELSE "t_recv"
    /\ lock' = IF cancelled THEN "free" ELSE lock
    /\ UNCHANGED <<memo, nrecv, late, nask, nans, ignored, cur2, mres2>>
    /\ UNCHANGED <<nlock, nelp, opened>>
    /\ SecondFrame

\* handle.receive()? fails
second_get_module_diagnostics_receive_fails ==
    /\ pc2 = "t_recv"
    /\ log' = Append(log, Ev("query2", "receive", "", "", Bytes(0), FALSE, {}))
    /\ SecondComputed(Error(IoError))
    /\ late' = Late(<<"receive">>)
    /\ UNCHANGED <<nrecv, nask, nans, ignored>>
    /\ UNCHANGED <<nlock, nelp, opened>>
    /\ SecondFrame

\* handle.receive()? yields GetAstBytes
second_get_module_diagnostics_GetAstBytes ==
    /\ pc2 = "t_recv"
    /\ nrecv < limit
    /\ \E msg \in SecondMsgs, ast \in SecondAstResults :
        /\ msg.tag = "GetAstBytes"
        /\ log' = log \o
              <<Ev("query2", "receive", msg.tag, msg.module, Bytes(0), TRUE, {}),
                EvQuery("query2", msg.format, msg.module, ast)>>
              \o (IF ast.kind = "Ok" /\ ~FitsU32(ast.len)
                  THEN <<EvTryInto("query2", ast.len)>> ELSE <<>>)
        /\ IF ast.kind = "Ok" /\ ~FitsU32(ast.len)
           THEN SecondComputed(Error(OverflowError))
           ELSE /\ cur2' = [cur2 EXCEPT !.module = msg.module, !.ast = ast]
                /\ pc2' = "t_reply"
                /\ UNCHANGED <<mres2, memo, lock>>
    /\ nrecv' = nrecv + 1
    /\ nask' = nask + 1
    /\ late' = Late(<<"receive">>)
    /\ UNCHANGED <<nans, ignored>>
    /\ UNCHANGED <<nlock, nelp, opened>>
    /\ SecondFrame

\* handle.receive()? yields any other message.
second_get_module_diagnostics_receive ==
    /\ pc2 = "t_recv"
    /\ nrecv < limit
    /\ \E msg \in SecondMsgs :
        /\ msg.tag # "GetAstBytes"
        /\ LET arm == get_module_diagnostics_arm(msg)
           IN  /\ log' = Append(log, Ev("query2", "receive", msg.tag, msg.module,
                                        Bytes(0), TRUE, msg.d))
               /\ ignored' = (ignored \/ arm = "ignore")
               /\ IF arm = "return"
                  THEN SecondComputed(Diagnostics(msg.d))
                  ELSE /\ pc2' = "t_check"
                       /\ UNCHANGED <<mres2, cur2, memo, lock>>
    /\ nrecv' = nrecv + 1
    /\ late' = Late(<<"receive">>)
    /\ UNCHANGED <<nask, nans>>
    /\ UNCHANGED <<nlock, nelp, opened>>
    /\ SecondFrame

\* handle.send(reply)? of the arm, and the arm's return if it has one.
second_get_module_diagnostics_send ==
    /\ pc2 = "t_reply"
    /\ \E ok \in BOOLEAN :
        LET reply == get_module_diagnostics_reply(cur2.ast)
            ret == get_module_diagnostics_return(cur2.ast, cur2.module)
        IN  /\ log' = Append(log, Ev("query2", "send", reply.tag, "", reply.n, ok, {}))
            /\ nans' = IF ok THEN nans + 1 ELSE nans
            /\ IF ~ok THEN SecondComputed(Error(IoError))
               ELSE IF ret # None THEN SecondComputed(ret)
               ELSE /\ pc2' = "t_newline"
                    /\ UNCHANGED <<mres2, cur2, memo, lock>>
    /\ late' = Late(<<"send">>)
    /\ UNCHANGED <<nrecv, nask, ignored>>
    /\ UNCHANGED <<nlock, nelp, opened>>
    /\ SecondFrame

\* handle.receive_newline()?
second_get_module_diagnostics_receive_newline ==
    /\ pc2 = "t_newline"
    /\ \E ok \in BOOLEAN :
        /\ log' = Append(log, Ev("query2", "receive_newline", "", "", Bytes(0), ok, {}))
        /\ IF ~ok
           THEN SecondComputed(Error(IoError))
           ELSE IF get_module_diagnostics_sends_bytes(cur2.ast)
           THEN /\ pc2' = "t_bytes"
                /\ UNCHANGED <<mres2, cur2, memo, lock>>
           ELSE /\ pc2' = "t_check"
                /\ cur2' = [cur2 EXCEPT !.module = "", !.ast = NoAstResult]
                /\ UNCHANGED <<mres2, memo, lock>>
    /\ late' = Late(<<"receive_newline">>)
    /\ UNCHANGED <<nrecv, nask, nans, ignored>>
    /\ UNCHANGED <<nlock, nelp, opened>>
    /\ SecondFrame

\* handle.send_bytes(&ast_bytes)?
second_get_module_diagnostics_send_bytes ==
    /\ pc2 = "t_bytes"
    /\ \E ok \in BOOLEAN :
        /\ log' = Append(log, Ev("query2", "send_bytes", "", "", cur2.ast.len, ok, {}))
        /\ IF ~ok
           THEN SecondComputed(Error(IoError))
           ELSE /\ pc2' = "t_check"
                /\ cur2' = [cur2 EXCEPT !.module = "", !.ast = NoAstResult]
                /\ UNCHANGED <<mres2, memo, lock>>
    /\ late' = Late(<<"send_bytes">>)
    /\ UNCHANGED <<nrecv, nask, nans, ignored>>
    /\ UNCHANGED <<nlock, nelp, opened>>
    /\ SecondFrame

\* The shell-mode typecheck with the second thread.
InitShared ==
    /\ shell = TRUE
    /\ pc = "init"
    /\ cancelled = FALSE
    /\ log = <<>>
    /\ cur = NoRequest
    /\ diagnostics = None
    /\ mres = None
    /\ mresults = <<>>
    /\ result = None
    /\ registry = {}
    /\ memo = [m \in Modules |-> None]
    /\ lock = "free"
    /\ nrecv = 0
    /\ served = {}
    /\ nenter = 0
    /\ nexit = 0
    /\ limit = MaxSharedMsgs
    /\ prefetched = {}
    /\ nlock = 0
    /\ nelp = 0
    /\ opened = <<>>
    /\ untracked = FALSE
    /\ late = <<>>
    /\ nask = 0
    /\ nans = 0
    /\ ignored = FALSE
    /\ pc2 = "t_idle"
    /\ cur2 = NoRequest
    /\ mres2 = None
    /\ args = <<>>
    /\ vals = <<>>

NextShared ==
    \/ Cancel
    \/ typecheck
    \/ shell_typecheck_check
    \/ shell_typecheck_receive_fails
    \/ shell_typecheck_receive
    \/ shell_typecheck_exit
    \/ module_diagnostics_memoized
    \/ get_module_diagnostics
    \/ get_module_diagnostics_enter
    \/ get_module_diagnostics_check
    \/ get_module_diagnostics_receive_fails
    \/ get_module_diagnostics_GetAstBytes
    \/ get_module_diagnostics_receive
    \/ get_module_diagnostics_send
    \/ get_module_diagnostics_receive_newline
    \/ get_module_diagnostics_send_bytes
    \/ second_module_diagnostics
    \/ second_module_diagnostics_memoized
    \/ second_get_module_diagnostics
    \/ second_get_module_diagnostics_enter
    \/ second_get_module_diagnostics_check
    \/ second_get_module_diagnostics_receive_fails
    \/ second_get_module_diagnostics_GetAstBytes
    \/ second_get_module_diagnostics_receive
    \/ second_get_module_diagnostics_send
    \/ second_get_module_diagnostics_receive_newline
    \/ second_get_module_diagnostics_send_bytes

SpecShared == InitShared /\ [][NextShared]_vars

-----------------------------------------------------------------------------
(* The shell-mode typecheck on its own thread, with the progress of that   *)
(* thread at lock(): parking_lot's lock() returns once the mutex is free.  *)

\* Protocol messages the child sends in a run checked for progress.
MaxLiveMsgs == 3

InitLive ==
    /\ shell = TRUE
    /\ pc = "init"
    /\ cancelled = FALSE
    /\ log = <<>>
    /\ cur = NoRequest
    /\ diagnostics = None
    /\ mres = None
    /\ mresults = <<>>
    /\ result = None
    /\ registry = {}
    /\ memo = [m \in Modules |-> None]
    /\ lock = "free"
    /\ nrecv = 0
    /\ served = {}
    /\ nenter = 0
    /\ nexit = 0
    /\ limit = MaxLiveMsgs
    /\ prefetched = {}
    /\ nlock = 0
    /\ nelp = 0
    /\ opened = <<>>
    /\ untracked = FALSE
    /\ late = <<>>
    /\ nask = 0
    /\ nans = 0
    /\ ignored = FALSE
    /\ pc2 = "off"
    /\ cur2 = NoRequest
    /\ mres2 = None
    /\ args = <<>>
    /\ vals = <<>>

NextLive ==
    \/ Cancel
    \/ typecheck
    \/ shell_typecheck_check
    \/ shell_typecheck_receive_fails
    \/ shell_typecheck_receive
    \/ shell_typecheck_exit
    \/ module_diagnostics_memoized
    \/ get_module_diagnostics
    \/ get_module_diagnostics_enter
    \/ get_module_diagnostics_check
    \/ get_module_diagnostics_receive_fails
    \/ get_module_diagnostics_GetAstBytes
    \/ get_module_diagnostics_receive
    \/ get_module_diagnostics_send
    \/ get_module_diagnostics_receive_newline
    \/ get_module_diagnostics_send_bytes

SpecLive == InitLive /\ [][NextLive]_vars /\ WF_vars(get_module_diagnostics)

-----------------------------------------------------------------------------
(* What the properties below read from the state *)

\* The calls made by a protocol loop that answers GetAstBytes.
IsLoopEv(e) == e.by \in {"batch", "query"}
LoopLog == SelectSeq(log, IsLoopEv)

Last(seq) == seq[Len(seq)]

\* The loop calls made after the i-th call of the log.
After(i) == SelectSeq(SubSeq(log, i + 1, Len(log)), IsLoopEv)

\* The i-th call is the AST query made for a GetAstBytes.
IsAstQuery(i) == log[i].op = "query" /\ log[i].res # ""

IsSend(e, tag) == e.op = "send" /\ e.tag = tag

\* The loop whose calls are in the log has terminated (the batch loop with
\* typecheck's return; the per-module loop with module_diagnostics' return
\* to the top-level loop, which has not begun its next iteration).
LoopEnded ==
    IF shell THEN pc \in {"s_exit", "s_check", "done"} ELSE pc = "done"

\* The outcome it terminated with.
LoopOutcome == IF shell THEN mres ELSE result

\* The loop is at the top of an iteration, the previous one in the log.
LoopContinues == pc \in {"b_check", "q_check"}

C2_BatchReturns ==
    (~shell /\ pc # "combine" /\ log # <<>>) =>
        LET e == Last(log)
            done == e.op = "receive" /\ e.ok /\ e.tag = "Done"
            failed == ~e.ok
            refused == /\ IsSend(e, "CannotCompleteRequest") /\ e.ok
                       /\ Len(log) >= 2
                       /\ IsAstQuery(Len(log) - 1)
                       /\ log[Len(log) - 1].res \in {"ParseError", "Other"}
        IN  /\ (result # None) <=> (pc = "done")
            /\ (pc = "done") <=> (done \/ failed \/ refused)
            /\ done => result = Diagnostics(e.d)
            /\ failed => result.tag = "Error"
            /\ refused => result.tag \in {"NoAst", "Error"}
            /\ result.tag = "Diagnostics" => done

C2_Witness ==
    /\ ~shell
    /\ pc = "done"
    /\ nrecv = 3
    /\ "Ok" \in served
    /\ result = Diagnostics({<<"x", <<"d2">>>>, <<"y", <<"d1">>>>})

\* C3 (as amended): when the AST query for GetAstBytes{module, format}
\* returns ParseError, in either loop, the only call the loop still makes
\* on the handle is the send of CannotCompleteRequest, after which it has
\* terminated: with NoAst{module}, module the one of the GetAstBytes, if
\* the send succeeded, and with the Error of the transport if it failed.
C3_ParseErrorEndsLoop ==
    \A i \in DOMAIN log :
        (IsAstQuery(i) /\ log[i].res = "ParseError") =>
            LET rest == After(i)
            IN  /\ Len(rest) <= 1
                /\ Len(rest) = 0 => pc \in {"b_reply", "q_reply"}
                /\ Len(rest) = 1 =>
                        /\ IsSend(rest[1], "CannotCompleteRequest")
                        /\ LoopEnded
                        /\ rest[1].ok => LoopOutcome = NoAst(log[i].module)
                        /\ ~rest[1].ok => LoopOutcome = Error(IoError)

\* in the per-module loop of m1, with the name of the GetAstBytes (m2)
C3_Witness ==
    /\ shell
    /\ pc = "s_exit"
    /\ mres = NoAst("m2")
    /\ \E i \in DOMAIN log :
        /\ IsAstQuery(i) /\ log[i].res = "ParseError" /\ log[i].module = "m2"
        /\ Len(After(i)) = 1
    /\ memo["m1"] = NoAst("m2")

\* C3 as stated: a ParseError always ends the loop with NoAst{module}.
C3_ParseErrorAlwaysNoAst ==
    \A i \in DOMAIN log :
        (IsAstQuery(i) /\ log[i].res = "ParseError" /\ LoopEnded) =>
            /\ Len(After(i)) = 1
            /\ IsSend(After(i)[1], "CannotCompleteRequest")
            /\ LoopOutcome = NoAst(log[i].module)

\* C4 (as amended): when the AST query for a GetAstBytes fails with an
\* error that is neither ModuleNotFound nor ParseError, the only call the
\* loop still makes on the handle is the send of CannotCompleteRequest (no
\* GetAstBytesReply), after which it has terminated: with Error(message),
\* message the text of the AST error, if the send succeeded, and with the
\* Error of the transport if it failed.
C4_OtherErrorEndsLoop ==
    \A i \in DOMAIN log :
        (IsAstQuery(i) /\ log[i].res = "Other") =>
            LET rest == After(i)
            IN  /\ Len(rest) <= 1
                /\ Len(rest) = 0 => pc \in {"b_reply", "q_reply"}
                /\ Len(rest) = 1 =>
                        /\ IsSend(rest[1], "CannotCompleteRequest")
                        /\ LoopEnded
                        /\ rest[1].ok => LoopOutcome = Error(log[i].err)
                        /\ ~rest[1].ok => LoopOutcome = Error(IoError)

C4_Witness ==
    /\ ~shell
    /\ pc = "done"
    /\ result = Error("boom")
    /\ Len(log) >= 2
    /\ IsSend(Last(log), "CannotCompleteRequest") /\ Last(log).ok
    /\ IsAstQuery(Len(log) - 1) /\ log[Len(log) - 1].res = "Other"

\* C4 as stated: such an error always ends the loop with Error(message),
\* message the text of the AST error.
C4_OtherErrorAlwaysItsText ==
    \A i \in DOMAIN log :
        (IsAstQuery(i) /\ log[i].res = "Other" /\ LoopEnded) =>
            /\ Len(After(i)) = 1
            /\ IsSend(After(i)[1], "CannotCompleteRequest")
            /\ LoopOutcome = Error(log[i].err)

\* C5: when the AST query for a GetAstBytes returns ModuleNotFound the loop
\* sends GetAstBytesReply{0}, consumes one newline, calls no send_bytes and
\* is back at the top of the loop; the loop ends in that iteration only if
\* the send or the newline fails (with the transport's Error). A NoAst or
\* Error outcome always comes from a failed step or from a ParseError or
\* other AST error of the last iteration, and a Done{d} received after a
\* ModuleNotFound still ends the loop with Diagnostics(d).
C5_ModuleNotFoundContinues ==
    /\ \A i \in DOMAIN log :
        (IsAstQuery(i) /\ log[i].res = "ModuleNotFound") =>
            LET rest == After(i)
            IN  /\ Len(rest) <= 2
                /\ Len(rest) = 0 => pc \in {"b_reply", "q_reply"}
                /\ Len(rest) >= 1 =>
                        /\ IsSend(rest[1], "GetAstBytesReply")
                        /\ rest[1].n = Bytes(0)
                /\ (Len(rest) = 1 /\ rest[1].ok) => pc \in {"b_newline", "q_newline"}
                /\ Len(rest) = 2 => rest[1].ok /\ rest[2].op = "receive_newline"
                /\ (Len(rest) = 2 /\ rest[2].ok) => LoopContinues
                /\ LoopEnded => /\ rest # <<>>
                                /\ ~Last(rest).ok
                                /\ LoopOutcome = Error(IoError)
    /\ (LoopEnded /\ LoopLog # <<>>) =>
        /\ Failed(LoopOutcome) =>
                \/ \E i \in DOMAIN log : IsLoopEv(log[i]) /\ ~log[i].ok
                \/ \E i \in DOMAIN log :
                        IsAstQuery(i) /\ log[i].res \in {"ParseError", "Other"}
        /\ (Last(LoopLog).op = "receive" /\ Last(LoopLog).tag = "Done") =>
                LoopOutcome = Diagnostics(Last(LoopLog).d)

C5_Witness ==
    /\ LoopEnded
    /\ served = {"ModuleNotFound"}
    /\ LoopLog # <<>>
    /\ Last(LoopLog).tag = "Done"
    /\ LoopOutcome = Diagnostics({<<"x", <<"d1">>>>})

\* C6: in shell mode every result returned by module_diagnostics for a
\* received EnteringModule is followed by exactly one send of
\* ELPExitingModule by the top-level loop before the loop receives again,
\* whatever the result is.
C6_OneExitPerModule ==
    (shell /\ pc # "combine") =>
        /\ nexit <= Len(mresults) /\ Len(mresults) <= nexit + 1
        /\ Len(mresults) <= nenter /\ nenter <= Len(mresults) + 1
        /\ pc = "s_exit" => Len(mresults) = nexit + 1 /\ nenter = Len(mresults)
        /\ pc \in {"s_check", "s_recv"} =>
                /\ nexit = Len(mresults)
                /\ nenter = Len(mresults)
        /\ pc = "s_exit" =>
                \A i \in DOMAIN log : ~IsSend(log[i], "ELPExitingModule")
        /\ (pc = "s_check" /\ \E i \in DOMAIN log : log[i].by # "top") =>
                /\ Last(log).by = "top"
                /\ IsSend(Last(log), "ELPExitingModule")
                /\ Last(log).ok
                /\ \A i \in DOMAIN log :
                        IsSend(log[i], "ELPExitingModule") => i = Len(log)

C6_Witness ==
    /\ shell
    /\ pc = "s_recv"
    /\ Len(mresults) = 2
    /\ mresults[1].tag = "NoAst"
    /\ mresults[2].tag = "Error"
    /\ nexit = 2

RECURSIVE Fold(_)
\* The left fold of combine over a sequence of outcomes, from
\* Diagnostics(empty).
Fold(seq) ==
    IF seq = <<>> THEN default
    ELSE combine(Fold(SubSeq(seq, 1, Len(seq) - 1)), Last(seq))

\* C7: the outcome shell-mode typecheck returns on Done is the left fold of
\* combine over the per-module outcomes in the order of their
\* EnteringModule, from Diagnostics(empty); the payload of the top-level
\* Done is not used. With Diagnostics({x:[d]}) then Error("boom") it is
\* Error("boom"); modules are still served after the accumulator has become
\* NoAst or Error.
C7_ShellFoldsModules ==
    (shell /\ pc # "combine") =>
        /\ pc \in {"s_check", "s_recv", "m_call", "q_enter", "q_check", "q_recv",
                   "q_reply", "q_newline", "q_bytes"}
                => diagnostics = Fold(mresults)
        /\ pc = "s_exit" => diagnostics = Fold(SubSeq(mresults, 1, Len(mresults) - 1))
        /\ (pc = "done" /\ Last(log).op = "receive" /\ Last(log).ok) =>
                /\ Last(log).tag = "Done"
                /\ result = Fold(mresults)
                /\ (mresults = <<Diagnostics({<<"x", <<"d1">>>>}), Error("boom")>>)
                        => result = Error("boom")
                /\ (\A i \in DOMAIN mresults : mresults[i].tag = "Diagnostics")
                        => /\ result.tag = "Diagnostics"
                           /\ result.map \subseteq
                                UNION {mresults[i].map : i \in DOMAIN mresults}

C7_Witness ==
    /\ shell
    /\ pc = "done"
    /\ Last(log).op = "receive" /\ Last(log).tag = "Done"
    /\ Last(log).d # {}
    /\ mresults = <<Diagnostics({<<"x", <<"d1">>>>}), Error("boom")>>
    /\ result = Error("boom")

-----------------------------------------------------------------------------
(* Cancellation, failures and the catch-all arms *)

\* The blocking calls on the handle.
HandleOps == {"send", "receive", "receive_newline", "send_bytes"}

IsCheck(e, by) == e.op = "unwind_if_cancelled" /\ e.by = by

\* C11 (as amended): a loop observes the cancellation only in the check at
\* the top of an iteration. A cancellation signalled before that check makes
\* the loop unwind there, with no further call on the handle; one signalled
\* after the check is not observed before the next check, so the calls of
\* the iteration under way are still started after it: at most one receive,
\* which is then the first of them, and at most four calls (receive, send,
\* receive_newline, send_bytes) in the batch loop, five in shell mode (the
\* per-module loop ending in its iteration, then the ELPExitingModule of
\* the top-level loop).
C11_UnwindsAtNextCheck ==
    /\ ~cancelled => late = <<>>
    /\ Len(late) <= IF shell THEN 5 ELSE 4
    /\ \A i \in DOMAIN late : late[i] = "receive" => i = 1
    /\ (cancelled /\ pc \in {"b_recv", "s_recv", "q_recv"}) => late = <<>>
    /\ pc = "unwound" =>
            /\ cancelled
            /\ Len(log) = 1
            /\ log[1].op = "unwind_if_cancelled"
            /\ result = None

\* the batch loop unwound after a whole GetAstBytes answer was made under
\* cancellation
C11_Witness ==
    /\ ~shell
    /\ pc = "unwound"
    /\ late = <<"receive", "send", "receive_newline", "send_bytes">>

\* C11 as stated: no blocking call on the handle is started once the
\* cancellation has been signalled.
C11_NoCallAfterCancellation == late = <<>>

\* A call that failed: the spawn or a call on the handle.
IsFailure(e) == ~e.ok /\ e.op \in HandleOps \cup {"from_command"}

\* The anyhow error of a failed call.
ErrorOf(e) == IF e.op = "from_command" THEN Error(SpawnError) ELSE Error(IoError)

\* C13 (as amended): a failed spawn, and a failed call of the batch loop or
\* of the shell top-level loop, is the last call of the run: typecheck has
\* returned Error(message). A failed call of the per-module loop is the last
\* call of that loop: module_diagnostics has returned Error(message) to the
\* top-level loop, which goes on (it sends ELPExitingModule, folds the Error
\* into its accumulator and receives again); typecheck then returns a NoAst
\* or Error outcome, the first failed one of the modules, which need not be
\* that Error.
C13_FailureEndsItsLoop ==
    /\ \A i \in DOMAIN log :
        IsFailure(log[i]) =>
            /\ log[i].by \in {"batch", "top"} =>
                    /\ i = Len(log)
                    /\ pc = "done"
                    /\ result = ErrorOf(log[i])
            /\ log[i].by = "query" =>
                    /\ After(i) = <<>>
                    /\ \A j \in DOMAIN log :
                            j > i => log[j].by = "top" /\ j = i + 1
                                     /\ IsSend(log[j], "ELPExitingModule")
                    /\ pc \in {"s_exit", "s_check", "done"}
                    /\ Last(mresults) = Error(IoError)
                    /\ \E m \in Modules : memo[m] = Error(IoError)
    /\ (shell /\ pc = "done" /\ \E i \in DOMAIN mresults : Failed(mresults[i])) =>
            Failed(result)

\* a receive failed in the second module's loop, the run went on to Done and
\* typecheck returned the NoAst of the first module
C13_Witness ==
    /\ shell
    /\ pc = "done"
    /\ mresults = <<NoAst("m2"), Error(IoError)>>
    /\ nexit = 2
    /\ Last(log).tag = "Done"
    /\ result = NoAst("m2")

\* C13 as stated: a failed call is the last call of the run, and typecheck
\* returns an Error.
C13_FailureEndsTypecheck ==
    /\ \A i \in DOMAIN log : IsFailure(log[i]) => i = Len(log)
    /\ (pc = "done" /\ \E i \in DOMAIN mresults : mresults[i] = Error(IoError)) =>
            result.tag = "Error"

\* C14: typecheck with shell = true calls report_untracked_read as its first
\* step, before the spawn of the child and so before any message, also when
\* the spawn fails; with shell = false it is never called.
C14_ShellUntracked ==
    /\ pc = "init" => ~untracked /\ nrecv = 0
    /\ pc # "init" => untracked = shell
    /\ \A i \in DOMAIN log :
        /\ log[i].op = "report_untracked_read" => shell /\ i = 1
        /\ log[i].op = "from_command" =>
                IF shell
                THEN i = 2 /\ log[1].op = "report_untracked_read"
                ELSE i = 1

\* the spawn failed in shell mode
C14_Witness ==
    /\ shell
    /\ untracked
    /\ pc = "done"
    /\ result = Error(SpawnError)
    /\ Len(log) = 2
    /\ log[1].op = "report_untracked_read"
    /\ log[2].op = "from_command" /\ ~log[2].ok

\* C15: when the AST query returns Ok with bytes whose length does not fit
\* u32 (2^32 or more), the conversion fails and nothing more is called on
\* the handle by that loop: it has ended with Error (the text of the
\* conversion error); every GetAstBytesReply sent carries a length below
\* 2^32, the length of the AST, and every send_bytes is of such an AST.
C15_OverflowIsFatal ==
    /\ \A i \in DOMAIN log :
        (IsAstQuery(i) /\ log[i].res = "Ok" /\ log[i].n.hi >= Limb) =>
            /\ i < Len(log)
            /\ log[i + 1].op = "try_into"
            /\ log[i + 1].n = log[i].n
            /\ After(i + 1) = <<>>
            /\ LoopEnded
            /\ LoopOutcome = Error(OverflowError)
    /\ \A i \in DOMAIN log :
        log[i].op \in {"send", "send_bytes"} => log[i].n.hi < Limb

C15_Witness ==
    /\ shell
    /\ pc = "s_exit"
    /\ mres = Error(OverflowError)
    /\ Last(log).op = "try_into"
    /\ Last(log).n = TooLong
    /\ IsAstQuery(Len(log) - 1)
    /\ log[Len(log) - 1].res = "Ok"

\* C18: in each of the three loops a receive of a protocol message is
\* immediately preceded by that loop's own unwind_if_cancelled: the check is
\* the first call of every iteration, and a loop waiting in receive has made
\* no call since its check.
C18_CheckBeforeReceive ==
    /\ \A i \in DOMAIN log :
        log[i].op = "receive" =>
            /\ i = 2
            /\ IsCheck(log[1], log[i].by)
    /\ pc = "b_recv" => log # <<>> /\ IsCheck(Last(log), "batch")
    /\ pc = "s_recv" => log # <<>> /\ IsCheck(Last(log), "top")
    /\ pc = "q_recv" => log # <<>> /\ IsCheck(Last(log), "query")

\* the per-module loop in its second iteration or later
C18_Witness ==
    /\ pc = "q_newline"
    /\ nask >= 2
    /\ IsCheck(log[1], "query")
    /\ log[2].op = "receive" /\ log[2].by = "query"

AnswerTags == {"GetAstBytesReply", "CannotCompleteRequest"}

\* No call has failed and no length has overflowed in this run.
NoFailure ==
    /\ \A i \in DOMAIN mresults : mresults[i] \notin {Error(IoError), Error(OverflowError)}
    /\ result \notin {Error(IoError), Error(OverflowError), Error(SpawnError)}

\* C19 (as amended): absent I/O failure and length overflow, every
\* GetAstBytes received by the batch loop or by the per-module loop is
\* answered by exactly one GetAstBytesReply or CannotCompleteRequest before
\* that loop receives again, and these are sent only as such an answer: the
\* answers sent are at most the GetAstBytes these loops received and at
\* most one fewer, fewer exactly while an answer is due. A GetAstBytes
\* received by the shell top-level loop is ignored and never answered.
C19_OneAnswerPerRequest ==
    /\ NoFailure =>
        /\ nans <= nask /\ nask <= nans + 1
        /\ (nask = nans + 1) <=> pc \in {"b_reply", "q_reply"}
    /\ \A i \in DOMAIN log :
        /\ (log[i].op = "send" /\ log[i].tag \in AnswerTags) =>
                /\ i = 4
                /\ log[i].by \in {"batch", "query"}
                /\ IsAstQuery(3) /\ log[3].by = log[i].by
                /\ log[2].op = "receive" /\ log[2].tag = "GetAstBytes"
                /\ log[2].by = log[i].by
        /\ (log[i].op = "receive" /\ log[i].tag = "GetAstBytes"
            /\ log[i].by \in {"batch", "query"} /\ LoopContinues) =>
                /\ Len(log) >= 4
                /\ log[4].op = "send" /\ log[4].tag \in AnswerTags /\ log[4].ok
        /\ (log[i].op = "receive" /\ log[i].tag = "GetAstBytes"
            /\ log[i].by = "top") =>
                /\ i = Len(log)
                /\ pc = "s_check"

\* two GetAstBytes answered in a batch run that ended with Done
C19_Witness ==
    /\ ~shell
    /\ pc = "done"
    /\ result.tag = "Diagnostics"
    /\ nask = 2
    /\ nans = 2

\* C19 as stated: every GetAstBytes received by a loop has been answered
\* when that loop is back at the top of an iteration.
C19_EveryGetAstBytesAnswered ==
    \A i \in DOMAIN log :
        (log[i].op = "receive" /\ log[i].ok /\ log[i].tag = "GetAstBytes"
         /\ pc \in {"b_check", "q_check", "s_check"}) =>
            \E j \in DOMAIN log :
                j > i /\ log[j].op = "send" /\ log[j].tag \in AnswerTags

\* The messages that fall to the catch-all arm of each loop.
Unrecognised(by) ==
    CASE by = "batch" -> {"EnteringModule", "Dependencies"}
      [] by = "top" -> {"GetAstBytes", "EqwalizingStart", "EqwalizingDone",
                        "Dependencies"}
      [] by = "query" -> {"EnteringModule"}
      [] OTHER -> {}

\* The pc of the top of each loop.
TopOf(by) ==
    CASE by = "batch" -> "b_check" [] by = "top" -> "s_check" [] OTHER -> "q_check"

\* A step that receives a message the loop does not recognise only records
\* the receive and goes to the top of the loop.
C20_IgnoringStep ==
    (nrecv' = nrecv + 1 /\ Len(log') > Len(log)) =>
        LET e == log'[Len(log) + 1]
        IN  e.tag \in Unrecognised(e.by) =>
                /\ log' = Append(log, e)
                /\ pc' = TopOf(e.by)
                /\ ignored'
                /\ UNCHANGED <<shell, cancelled, cur, diagnostics, mres,
                               mresults, result, registry, memo, lock,
                               served, nenter, nexit, untracked, nask, nans>>

\* A Done received after such a message ends the loop as it does without:
\* the batch and the per-module loop with Diagnostics(d), the top-level loop
\* with its accumulator, Diagnostics when every module gave Diagnostics.
C20_DoneStillDiagnostics ==
    (ignored /\ log # <<>> /\ Last(log).op = "receive" /\ Last(log).ok
     /\ Last(log).tag = "Done") =>
        CASE Last(log).by = "batch" ->
                pc = "done" /\ result = Diagnostics(Last(log).d)
          [] Last(log).by = "query" ->
                pc = "s_exit" /\ mres = Diagnostics(Last(log).d)
          [] OTHER ->
                /\ pc = "done"
                /\ result = Fold(mresults)
                /\ (\A i \in DOMAIN mresults : mresults[i].tag = "Diagnostics")
                        => result.tag = "Diagnostics"

\* C20: a message a loop does not recognise in its mode (batch:
\* EnteringModule, Dependencies; top level: all but EnteringModule and
\* Done; per module: EnteringModule) is ignored: nothing is sent, no sink
\* and no AST query is called, no outcome changes, the loop is at its next
\* iteration; and a later Done still ends the loop with Diagnostics.
C20_UnknownIgnored == [][C20_IgnoringStep]_vars /\ []C20_DoneStillDiagnostics

\* an EnteringModule or Dependencies ignored between two GetAstBytes of a
\* batch run that ended with the diagnostics of Done
C20_Witness ==
    /\ ~shell
    /\ ignored
    /\ pc = "done"
    /\ nask = 2 /\ nans = 2
    /\ nrecv = 4
    /\ result = Diagnostics({<<"x", <<"d1">>>>})

-----------------------------------------------------------------------------
(* The handle's mutex *)

\* The calls recorded by a step.
NewCalls ==
    IF Len(log') >= Len(log) /\ SubSeq(log', 1, Len(log)) = log
    THEN SubSeq(log', Len(log) + 1, Len(log'))
    ELSE log'

\* At most one thread is in get_module_diagnostics with the handle: the
\* guard is held exactly from before the send of ELPEnteringModule to the
\* end of the loop, and a thread that has called module_diagnostics
\* meanwhile has not passed lock().
C12_OneHolder ==
    /\ lock \in {"free", "query", "query2"}
    /\ (lock = "query") <=> (pc \in QPcs)
    /\ (lock = "query2") <=> (pc2 \in TPcs)
    /\ ~(pc \in QPcs /\ pc2 \in TPcs)

\* Every call on the handle is made by the thread that holds the guard: a
\* query's calls while it holds it, the top-level loop's calls while no
\* query holds it.
C12_CallsByHolder ==
    \A i \in DOMAIN NewCalls :
        LET e == NewCalls[i]
        IN  e.op \in HandleOps =>
                /\ e.by = "top" => lock = "free" /\ lock' = "free"
                /\ e.by = "query" => lock = "query" /\ pc \in QPcs
                /\ e.by = "query2" => lock = "query2" /\ pc2 \in TPcs

\* C12: in shell mode the handle's mutex serialises the module_diagnostics
\* queries: at most one query holds the handle, from its ELPEnteringModule
\* to the end of its loop; no other query and not the top-level loop calls
\* the handle meanwhile, so the calls of two exchanges never interleave;
\* every other query waits at lock().
C12_MutexSerialises == []C12_OneHolder /\ [][C12_CallsByHolder]_vars

\* the second thread is in the middle of an answer while the thread of
\* typecheck waits at lock() for its module
C12_Witness ==
    /\ pc = "m_call"
    /\ cur.entered \in registry
    /\ memo[cur.entered] = None
    /\ pc2 = "t_newline"
    /\ cur2.entered # cur.entered
    /\ lock = "query2"

-----------------------------------------------------------------------------
(* The dependency prefetch of the per-module loop *)

\* The i-th call of the log is the per-module loop receiving msg.
IsReceiptOf(i, msg) ==
    /\ log[i].by = "query"
    /\ log[i].op = "receive"
    /\ log[i].ok
    /\ log[i].tag = msg.tag

\* C21: in the shell per-module loop a received Dependencies is followed
\* by one transitive-stub query for each listed module, in the order of the
\* list, and by nothing else: whatever the queries return (Ok,
\* ModuleNotFound, ParseError, another error), no message is sent to the
\* child, the loop still holds the handle and goes to the top of its next
\* iteration. The outcome of the loop does not come from a prefetch: a
\* computed NoAst or AST error has its cause among the queries made for
\* GetAstBytes, and a Done received after prefetches, failed or not,
\* returns Diagnostics of what it carries.
C21_DependenciesPrefetch ==
    /\ \A i \in DOMAIN log : \A msg \in QueryMsgs :
          (msg.tag = "Dependencies" /\ IsReceiptOf(i, msg)) =>
              /\ Len(log) = i + Len(msg.modules)
              /\ \A k \in 1 .. Len(msg.modules) :
                    /\ log[i + k].by = "query"
                    /\ log[i + k].op = "prefetch"
                    /\ log[i + k].tag = "transitive_stub_bytes"
                    /\ log[i + k].module = msg.modules[k]
              /\ pc = "q_check"
              /\ lock = "query"
              /\ prefetched # {}
    /\ \A i \in DOMAIN log : log[i].op = "prefetch" =>
          \E j \in 1 .. i - 1 : \E msg \in QueryMsgs :
              msg.tag = "Dependencies" /\ IsReceiptOf(j, msg)
    /\ (pc = "s_exit" /\ Last(log).by = "query") =>
          /\ mres.tag = "NoAst" => "ParseError" \in served
          /\ (mres.tag = "Error" /\ mres.msg \in AstErrors) => "Other" \in served
          /\ (Last(log).op = "receive" /\ Last(log).ok /\ Last(log).tag = "Done")
                => mres = Diagnostics(Last(log).d)

\* prefetches failed and succeeded, no AST query failed, and the Done that
\* came after them completed the module
C21_Witness ==
    /\ pc = "s_exit"
    /\ prefetched = {TRUE, FALSE}
    /\ served = {"Ok"}
    /\ Last(log).by = "query"
    /\ Last(log).op = "receive"
    /\ Last(log).tag = "Done"
    /\ mres = Diagnostics(Last(log).d)
    /\ mres.map # {}

-----------------------------------------------------------------------------
(* The lookup of the handle and the ELPEnteringModule of a query *)

\* format!("no eqWAlizer handle for module {}", module), as the outcome
NoHandle == Error("no eqWAlizer handle for module")

\* e is a send of ELPEnteringModule.
IsEntering(e) == e.op = "send" /\ e.tag = "ELPEnteringModule"

\* A query past its lookup has found a handle, and every guard taken has
\* been followed by one ELPEnteringModule, unless it is about to be.
C22_EnteredOncePerGuard ==
    /\ pc \in QPcs => cur.entered \in registry
    /\ pc2 \in TPcs => cur2.entered \in registry
    /\ nlock = nelp + (IF pc = "q_enter" THEN 1 ELSE 0)
                    + (IF pc2 = "t_enter" THEN 1 ELSE 0)

\* The steps of a query around its lookup: without a handle it returns the
\* Error and nothing is called, locked or sent; with one it takes the guard
\* and its next step is the send of ELPEnteringModule, which no other step
\* makes; every other call of the query on the handle comes later.
C22_LookupStep ==
    /\ (pc2 = "t_call" /\ pc2' # "t_call" /\ cur2.entered \notin registry) =>
          /\ pc2' = "t_done"
          /\ mres2' = NoHandle
          /\ UNCHANGED <<log, lock, nlock, nelp, opened, nans, late, nrecv>>
    /\ (pc = "m_call" /\ pc' # "m_call" /\ cur.entered \notin registry) =>
          /\ pc' = "s_exit"
          /\ mres' = NoHandle
          /\ UNCHANGED <<log, lock, nlock, nelp, opened, nans, late, nrecv>>
    /\ (pc2 = "t_call" /\ pc2' = "t_enter") =>
          /\ lock = "free" /\ lock' = "query2"
          /\ nlock' = nlock + 1
          /\ \A i \in DOMAIN NewCalls : NewCalls[i].op \notin HandleOps
    /\ (pc = "m_call" /\ pc' = "q_enter") =>
          /\ lock = "free" /\ lock' = "query"
          /\ nlock' = nlock + 1
          /\ \A i \in DOMAIN NewCalls : NewCalls[i].op \notin HandleOps
    /\ pc2' = "t_enter" => pc2 \in {"t_call", "t_enter"}
    /\ pc' = "q_enter" => pc \in {"m_call", "q_enter"}
    /\ (pc2 = "t_enter" /\ pc2' # "t_enter") =>
          /\ Len(NewCalls) = 1
          /\ IsEntering(NewCalls[1]) /\ NewCalls[1].by = "query2"
    /\ (pc = "q_enter" /\ pc' # "q_enter") =>
          /\ Len(NewCalls) = 1
          /\ IsEntering(NewCalls[1]) /\ NewCalls[1].by = "query"
    /\ \A i \in DOMAIN NewCalls :
          LET e == NewCalls[i]
          IN  /\ IsEntering(e) =>
                    /\ nelp' = nelp + 1
                    /\ \/ e.by = "query" /\ pc = "q_enter"
                       \/ e.by = "query2" /\ pc2 = "t_enter"
              /\ (e.op \in HandleOps /\ ~IsEntering(e)) =>
                    /\ e.by = "query" => pc \in QPcs \ {"q_enter"}
                    /\ e.by = "query2" => pc2 \in TPcs \ {"t_enter"}

\* C22: a per-module query whose module has no handle in the registry
\* returns the Error outcome and has sent nothing to the child, called
\* nothing on a handle and taken no guard; a query that finds the handle
\* takes its guard and sends ELPEnteringModule as its first call on the
\* handle, once, before any receive.
C22_LookupThenEnter == []C22_EnteredOncePerGuard /\ [][C22_LookupStep]_vars

\* a query for a module without a handle has failed, having sent nothing,
\* while the query of the top-level loop, whose module has one, has sent
\* its ELPEnteringModule and is at its first receive
C22_Witness ==
    /\ pc2 = "t_done"
    /\ mres2 = NoHandle
    /\ cur2.entered \notin registry
    /\ pc = "q_recv"
    /\ nlock = 1
    /\ nelp = 1
    /\ opened = <<"query">>
    /\ nrecv = 1

-----------------------------------------------------------------------------
(* The guard of the handle and the progress of the top-level loop's query *)

\* The guard is held exactly while a per-module query is between its
\* lock() and its return or unwinding: it is free when the top-level loop
\* calls module_diagnostics, and free again on every way out of the query.
C24_GuardReleased ==
    /\ lock \in {"free", "query"}
    /\ (lock = "query") <=> (pc \in QPcs)

\* The top-level loop takes the guard for one receive or one send and has
\* dropped it when the call is over; a query leaves its loop with the guard
\* dropped, to the top-level loop or by unwinding.
C24_GuardStep ==
    /\ \A i \in DOMAIN NewCalls :
          (NewCalls[i].by = "top" /\ NewCalls[i].op \in HandleOps) =>
              /\ lock = "free" /\ lock' = "free"
              /\ \A k \in DOMAIN NewCalls :
                    NewCalls[k].op \in HandleOps => k = i
    /\ (pc \in QPcs /\ pc' \notin QPcs) =>
          /\ pc' \in {"s_exit", "unwound"}
          /\ lock' = "free"

\* C24: the shell-mode mutex does not deadlock the thread of typecheck: the
\* top-level loop holds the guard for a single receive or send only, never
\* over its call of module_diagnostics; the per-module query drops it on
\* every way out (Done, NoAst, Error, a failed call, unwinding); so the
\* query called by the top-level loop always gets past lock() (or is
\* answered from the memo).
C24_NoDeadlock ==
    /\ []C24_GuardReleased
    /\ [][C24_GuardStep]_vars
    /\ (pc = "m_call") ~> (pc \in {"q_enter", "s_exit"})

\* a query has ended by NoAst, the top-level loop has sent its
\* ELPExitingModule, and its next query has taken the guard
C24_Witness ==
    /\ pc = "q_enter"
    /\ lock = "query"
    /\ mresults = <<NoAst("m2")>>
    /\ nexit = 1
    /\ nlock = 2

-----------------------------------------------------------------------------
(* ELPEnteringModule and ELPExitingModule as brackets *)

\* The ELPEnteringModule sends of the top-level loop's own query since the
\* last ELPExitingModule.
OwnEnterings == Len(SelectSeq(opened, LAMBDA by : by = "query"))

\* Where the top-level loop is between two modules.
BetweenModules == pc \in {"s_check", "s_recv", "m_call", "q_enter"}

\* C25 (as stated): ELPEnteringModule and ELPExitingModule alternate
\* strictly: when the top-level loop is about to send ELPExitingModule,
\* exactly one ELPEnteringModule has been sent since the previous
\* ELPExitingModule, by the query run for the module entered, and never
\* more than one is outstanding. It does not hold: a module_diagnostics
\* answered from the memo sends none, and a concurrent query of another
\* thread sends its own, which no ELPExitingModule follows.
C25_StrictlyBracketed ==
    /\ Len(opened) <= 1
    /\ pc = "s_exit" => opened = <<"query">>

\* What holds of the sends of the top-level loop's own query.
C25_OwnBrackets ==
    /\ OwnEnterings <= 1
    /\ BetweenModules => OwnEnterings = 0
    /\ pc \in QPcs \ {"q_enter"} => OwnEnterings = 1

C25_BracketStep ==
    /\ nexit' # nexit =>
          /\ pc = "s_exit"
          /\ nexit' = nexit + 1
          /\ opened' = <<>>
    /\ (pc = "m_call" /\ pc' = "s_exit") => UNCHANGED <<opened, nelp>>
    /\ (pc \in QPcs /\ pc' = "s_exit") => OwnEnterings' = 1

\* C25 (as amended): every ELPExitingModule of the top-level loop is sent
\* after module_diagnostics returned for the module entered and closes at
\* most one ELPEnteringModule of that query: exactly one when the query ran
\* get_module_diagnostics with the handle, none when the value came from
\* the memo; the ELPEnteringModule of a concurrent query of another thread
\* falls wherever the guard is free and is closed by no ELPExitingModule of
\* its own.
C25_BracketedUnlessMemoized == []C25_OwnBrackets /\ [][C25_BracketStep]_vars

\* the top-level loop is about to send ELPExitingModule for a module whose
\* value it got from the memo, computed by a query of another thread: the
\* only ELPEnteringModule since the last ELPExitingModule is that query's
C25_Witness ==
    /\ pc = "s_exit"
    /\ pc2 = "t_done"
    /\ opened = <<"query2">>
    /\ mres = mres2
    /\ mres.tag = "Diagnostics"
    /\ nlock = 1
    /\ nelp = 1
    /\ nexit = 0

-----------------------------------------------------------------------------
(* combine alone: the operands are drawn from Outcomes and combine is      *)
(* applied to them in the ways the laws below need.                        *)

Outcomes ==
    {Diagnostics(m) : m \in DiagMaps}
    \cup {NoAst(m) : m \in Modules}
    \cup {Error(e) : e \in AstErrors \cup {IoError}}

InitCombine ==
    /\ shell = FALSE
    /\ pc = "combine"
    /\ cancelled = FALSE
    /\ log = <<>>
    /\ cur = NoRequest
    /\ diagnostics = None
    /\ mres = None
    /\ mresults = <<>>
    /\ result = None
    /\ registry = {}
    /\ memo = [m \in Modules |-> None]
    /\ lock = "free"
    /\ nrecv = 0
    /\ served = {}
    /\ nenter = 0
    /\ nexit = 0
    /\ limit = MaxMsgs
    /\ prefetched = {}
    /\ nlock = 0
    /\ nelp = 0
    /\ opened = <<>>
    /\ untracked = FALSE
    /\ late = <<>>
    /\ nask = 0
    /\ nans = 0
    /\ ignored = FALSE
    /\ pc2 = "off"
    /\ cur2 = NoRequest
    /\ mres2 = None
    /\ args \in Outcomes \X Outcomes \X Outcomes
    /\ vals = <<>>

Combine ==
    /\ pc = "combine"
    /\ vals = <<>>
    /\ vals' = [ab   |-> combine(args[1], args[2]),
                ba   |-> combine(args[2], args[1]),
                ab_c |-> combine(combine(args[1], args[2]), args[3]),
                a_bc |-> combine(args[1], combine(args[2], args[3])),
                eb   |-> combine(default, args[2])]
    /\ UNCHANGED <<untracked, late, nask, nans, ignored, pc2, cur2, mres2>>
    /\ UNCHANGED <<shell, pc, cancelled, log, cur, diagnostics, mres, mresults,
                   result, registry, memo, lock, nrecv, served, nenter, nexit,
                   args, limit,
                   prefetched, nlock, nelp, opened>>

SpecCombine == InitCombine /\ [][Combine]_vars

Combined == vals # <<>>

\* C8: whenever an operand of combine is NoAst or Error, combine returns the
\* left-most such operand: combine(a, b) = a when a is NoAst or Error, whatever
\* b is, and combine(a, b) = b when a is Diagnostics and b is NoAst or Error.
C8_LeftmostFailureWins ==
    Combined =>
        /\ Failed(args[1]) => vals.ab = args[1]
        /\ (args[1].tag = "Diagnostics" /\ Failed(args[2])) => vals.ab = args[2]

C8_Witness ==
    /\ Combined
    /\ args[1] = Error("boom")
    /\ args[2] = NoAst("m1")
    /\ vals.ab = Error("boom")
    /\ vals.ba = NoAst("m1")

\* C9: for two Diagnostics operands l and r, combine returns Diagnostics(u)
\* with keys(u) = keys(l) \cup keys(r), u[k] = r[k] for every key of r (the
\* right list replaces the left one) and u[k] = l[k] for a key only in l; so
\* combine(Diagnostics(empty), b) = b, and combine(l, r) # combine(r, l) when
\* l and r share a key with different lists.
C9_RightMapReplaces ==
    (Combined /\ args[1].tag = "Diagnostics" /\ args[2].tag = "Diagnostics") =>
        LET l == args[1].map
            r == args[2].map
            u == vals.ab.map
        IN  /\ vals.ab.tag = "Diagnostics"
            /\ IsMap(u)
            /\ MapKeys(u) = MapKeys(l) \cup MapKeys(r)
            /\ \A k \in MapKeys(r) : MapGet(u, k) = MapGet(r, k)
            /\ \A k \in MapKeys(l) \ MapKeys(r) : MapGet(u, k) = MapGet(l, k)
            /\ vals.eb = args[2]
            /\ (\E k \in MapKeys(l) \cap MapKeys(r) : MapGet(l, k) # MapGet(r, k))
                    => vals.ab # vals.ba

C9_Witness ==
    /\ Combined
    /\ args[1] = Diagnostics({<<"x", <<"d1">>>>, <<"y", <<"d1">>>>})
    /\ args[2] = Diagnostics({<<"x", <<"d2">>>>})
    /\ vals.ab = Diagnostics({<<"x", <<"d2">>>>, <<"y", <<"d1">>>>})
    /\ vals.ba = Diagnostics({<<"x", <<"d1">>>>, <<"y", <<"d1">>>>})

\* C10: combine is associative over all three variants:
\* combine(combine(a, b), c) = combine(a, combine(b, c)).
C10_Associative == Combined => vals.ab_c = vals.a_bc

C10_Witness ==
    /\ Combined
    /\ args[1] = Diagnostics({<<"x", <<"d1">>>>})
    /\ args[2] = NoAst("m2")
    /\ args[3] = Error("boom")
    /\ vals.ab_c = NoAst("m2")
    /\ vals.a_bc = NoAst("m2")
-----------------------------------------------------------------------------
(* compute_eqwalizer_stats alone: the converted AST is drawn from          *)
(* ConvertedAsts and the function is applied to it.                        *)

\* Forms of a module, and fixme entries of a metadata form.
MaxForms == 3
MaxFixmes == 2

\* The sequences over S of length at most n.
SeqUpTo(S, n) == UNION {[1 .. k -> S] : k \in 0 .. n}

\* ExternalForm: ElpMetadata(meta) with meta.fixmes, each fixme with its
\* is_ignore flag; EqwalizerNowarnFunction; any other form.
Forms ==
    [kind : {"ElpMetadata"}, fixmes : SeqUpTo(BOOLEAN, MaxFixmes)]
    \cup [kind : {"EqwalizerNowarnFunction", "Other"}, fixmes : {<<>>}]

\* db.converted_ast(project_id, module): Ok(forms) or an error.
ConvertedAsts ==
    [ok : {TRUE}, forms : SeqUpTo(Forms, MaxForms)]
    \cup [ok : {FALSE}, forms : {<<>>}]

NoStats == [tag |-> "None", fixmes |-> 0, ignores |-> 0, nowarn |-> 0]
EqwalizerStats(fixmes, ignores, nowarn) ==
    [tag |-> "Some", fixmes |-> fixmes, ignores |-> ignores, nowarn |-> nowarn]

RECURSIVE count_fixmes_as_fixmes(_, _)
\* The inner loop without the is_ignore test.
count_fixmes_as_fixmes(c, fixmes) ==
    IF fixmes = <<>> THEN c
    ELSE count_fixmes_as_fixmes([c EXCEPT !.fixmes = @ + 1], Tail(fixmes))

RECURSIVE count_fixmes(_, _)
\* for fixme in meta.fixmes { if fixme.is_ignore { ignores += 1 } else { fixmes += 1 } }
count_fixmes(c, fixmes) ==
    IF fixmes = <<>> THEN c
    ELSE count_fixmes(IF Head(fixmes)
                      THEN [c EXCEPT !.ignores = @ + 1]
                      ELSE [c EXCEPT !.fixmes = @ + 1],
                      Tail(fixmes))

RECURSIVE count_forms(_, _)
\* for form in ast.to_vec() { match form { .. } }
count_forms(c, forms) ==
    IF forms = <<>> THEN c
    ELSE LET form == Head(forms)
             next == CASE form.kind = "ElpMetadata" -> count_fixmes(c, form.fixmes)
                       [] form.kind = "EqwalizerNowarnFunction" ->
                                [c EXCEPT !.nowarn = @ + 1]
                       [] OTHER -> c
         IN  count_forms(next, Tail(forms))

\* compute_eqwalizer_stats, with the result of db.converted_ast(..)
compute_eqwalizer_stats(ast) ==
    IF ~ast.ok THEN NoStats
    ELSE LET c == count_forms([fixmes |-> 0, ignores |-> 0, nowarn |-> 0], ast.forms)
         IN  IF c.fixmes = 0 /\ c.ignores = 0 /\ c.nowarn = 0
             THEN NoStats
             ELSE EqwalizerStats(c.fixmes, c.ignores, c.nowarn)

\* The driver's variables, unused by the specifications of one function.
Idle ==
    /\ shell = FALSE
    /\ cancelled = FALSE
    /\ log = <<>>
    /\ cur = NoRequest
    /\ diagnostics = None
    /\ mres = None
    /\ mresults = <<>>
    /\ result = None
    /\ registry = {}
    /\ memo = [m \in Modules |-> None]
    /\ lock = "free"
    /\ nrecv = 0
    /\ served = {}
    /\ nenter = 0
    /\ nexit = 0
    /\ untracked = FALSE
    /\ late = <<>>
    /\ nask = 0
    /\ nans = 0
    /\ ignored = FALSE
    /\ limit = MaxMsgs
    /\ prefetched = {}
    /\ nlock = 0
    /\ nelp = 0
    /\ opened = <<>>
    /\ pc2 = "off"
    /\ cur2 = NoRequest
    /\ mres2 = None

IdleFrame ==
    UNCHANGED <<shell, pc, cancelled, log, cur, diagnostics, mres, mresults,
                result, registry, memo, lock, nrecv, served, nenter, nexit,
                untracked, late, nask, nans, ignored, limit, prefetched,
                nlock, nelp, opened, pc2, cur2, mres2, args>>

InitStats ==
    /\ Idle
    /\ pc = "stats"
    /\ args \in {<<ast>> : ast \in ConvertedAsts}
    /\ vals = <<>>

Stats ==
    /\ pc = "stats"
    /\ vals = <<>>
    /\ vals' = [stats |-> compute_eqwalizer_stats(args[1])]
    /\ IdleFrame

SpecStats == InitStats /\ [][Stats]_vars

\* The fixme entries of the metadata forms with is_ignore = b.
FixmeEntries(forms, b) ==
    {<<i, j>> \in (DOMAIN forms) \X (1 .. MaxFixmes) :
        /\ forms[i].kind = "ElpMetadata"
        /\ j \in DOMAIN forms[i].fixmes
        /\ forms[i].fixmes[j] = b}

NowarnForms(forms) ==
    {i \in DOMAIN forms : forms[i].kind = "EqwalizerNowarnFunction"}

\* C16: compute_eqwalizer_stats returns "no stats" exactly when
\* fixmes + ignores + nowarn = 0, ignores the number of fixme entries with
\* is_ignore over all metadata forms, fixmes the number of those without,
\* nowarn the number of nowarn-function forms; the stats it returns carry
\* these three counts; when the converted AST cannot be obtained it returns
\* "no stats".
C16_StatsCounts ==
    (pc = "stats" /\ vals # <<>>) =>
        LET ast == args[1]
            ignores == Cardinality(FixmeEntries(ast.forms, TRUE))
            fixmes == Cardinality(FixmeEntries(ast.forms, FALSE))
            nowarn == Cardinality(NowarnForms(ast.forms))
        IN  /\ ~ast.ok => vals.stats = NoStats
            /\ (vals.stats = NoStats) <=> (fixmes + ignores + nowarn = 0)
            /\ vals.stats # NoStats =>
                    vals.stats = EqwalizerStats(fixmes, ignores, nowarn)

\* a module with an ignore, a fixme and a nowarn function
C16_Witness ==
    /\ pc = "stats"
    /\ vals # <<>>
    /\ args[1].ok
    /\ Len(args[1].forms) = 3
    /\ vals.stats = EqwalizerStats(1, 1, 1)

-----------------------------------------------------------------------------
(* unused_macro alone: the file, its extension, the macros of its def_map  *)
(* and the accumulator are drawn from small sets.                          *)

\* Macros in the def_map of the file.
MaxMacros == 2

\* The file under analysis and a file it includes.
FileIds == {"main", "header"}

\* file.extension() of the file: Some("erl"), Some("hrl"), none.
Exts == {"erl", "hrl", ""}

MacroNames == {"A", "B", "C"}

\* A macro of def_map.get_macros(): its name, the file of its definition,
\* whether usages(..).at_least_one(), and whether a token follows the last
\* token of the definition (none does when the file ends with it).
MacroDefs ==
    [name : MacroNames, file : FileIds, used : BOOLEAN, followed : BOOLEAN]

\* get_macros() iterates a map: the names are distinct, the order is any.
MacroLists ==
    {ms \in SeqUpTo(MacroDefs, MaxMacros) :
        \A i \in DOMAIN ms : \A j \in DOMAIN ms : ms[i].name = ms[j].name => i = j}

\* Diagnostic::warning(DiagnosticCode::UnusedMacro, name_range,
\* format!("Unused macro ({name})")) with its fix
make_diagnostic(name) ==
    [severity |-> "warning", code |-> "UnusedMacro",
     message |-> <<"Unused macro (", name, ")">>]

\* A diagnostic of another check, already in the accumulator.
OtherDiagnostic ==
    [severity |-> "error", code |-> "Other", message |-> <<"other">>]

RECURSIVE unused_macro_loop(_, _, _)
\* for (name, def) in def_map.get_macros() { .. }: the `?` on next_token()
\* returns None from the function. (last_token() and source.name() are Some
\* for a definition that is in the def_map under its name.)
unused_macro_loop(acc, file_id, macros) ==
    IF macros = <<>> THEN [acc |-> acc, ret |-> "Some"]
    ELSE LET def == Head(macros)
         IN  IF def.file = file_id /\ ~def.used
             THEN IF ~def.followed
                  THEN [acc |-> acc, ret |-> "None"]
                  ELSE unused_macro_loop(Append(acc, make_diagnostic(def.name)),
                                         file_id, Tail(macros))
             ELSE unused_macro_loop(acc, file_id, Tail(macros))

\* unused_macro(acc, sema, file_id, ext)
unused_macro(acc, file_id, ext, macros) ==
    IF ext = "erl"
    THEN unused_macro_loop(acc, file_id, macros)
    ELSE [acc |-> acc, ret |-> "Some"]

InitMacro ==
    /\ Idle
    /\ pc = "unused_macro"
    /\ args \in {<<acc, "main", ext, macros>> :
                    acc \in {<<>>, <<OtherDiagnostic>>}, ext \in Exts,
                    macros \in MacroLists}
    /\ vals = <<>>

UnusedMacro ==
    /\ pc = "unused_macro"
    /\ vals = <<>>
    /\ vals' = unused_macro(args[1], args[2], args[3], args[4])
    /\ IdleFrame

SpecMacro == InitMacro /\ [][UnusedMacro]_vars

\* The warnings for the macro name among the diagnostics seq[from..].
WarningsFor(seq, from, name) ==
    {i \in from .. Len(seq) : seq[i] = make_diagnostic(name)}

\* C17: for a file with extension erl unused_macro appends exactly one
\* "Unused macro" warning for every macro that is defined in the file
\* itself and has no usage, and none for a macro with a usage, for a macro
\* of an included file, or when the extension is not erl; the diagnostics
\* already in the accumulator are unchanged.
C17_OneWarningPerUnusedMacro ==
    (pc = "unused_macro" /\ vals # <<>>) =>
        LET acc == args[1]
            file_id == args[2]
            ext == args[3]
            macros == args[4]
            out == vals.acc
        IN  /\ Len(out) >= Len(acc)
            /\ SubSeq(out, 1, Len(acc)) = acc
            /\ \A i \in DOMAIN macros :
                Cardinality(WarningsFor(out, Len(acc) + 1, macros[i].name)) =
                    IF ext = "erl" /\ macros[i].file = file_id /\ ~macros[i].used
                    THEN 1 ELSE 0
            /\ \A i \in Len(acc) + 1 .. Len(out) :
                \E j \in DOMAIN macros : out[i] = make_diagnostic(macros[j].name)

-----------------------------------------------------------------------------
(* The batch loop and the per-module loop side by side: each loop run as a *)
(* function of what its environment does. A script gives, for each         *)
(* iteration, the message the child sends, what the AST query (or each     *)
(* prefetch) returns and which call on the handle fails, if any.           *)

\* Iterations a script covers.
MaxTurns == 2

ScriptMsgs ==
    {GetAstBytes("m2", "TransitiveStub"), EqwalizingStart("m1"),
     EqwalizingDone("m2"), EnteringModule("m1"),
     Dependencies(<<"m2", "m1">>), Done({<<"x", <<"d1">>>>})}

ScriptAsts ==
    {a \in AstResults : a.kind = "Ok" => a.len \in {Bytes(MaxLen), TooLong}}

\* fail: 0 for no failure, else the call of the iteration that fails
\* (1 receive, 2 send, 3 receive_newline, 4 send_bytes).
Turns ==
    {t \in [msg : ScriptMsgs, ast : ScriptAsts \cup PrefetchResults,
            fail : 0 .. 4] :
        CASE t.msg.tag = "GetAstBytes" -> t.ast \in ScriptAsts
          [] t.msg.tag = "Dependencies" ->
                t.ast \in PrefetchResults /\ t.ast.kind \in {"Ok", "ParseError"}
                /\ t.fail \in {0, 1}
          [] OTHER -> t.ast = [kind |-> "Ok", len |-> Bytes(0), err |-> ""]
                      /\ t.fail \in {0, 1}}

Scripts == SeqUpTo(Turns, MaxTurns)

\* The loop left by unwinding.
Unwound == [tag |-> "Unwound", map |-> {}, module |-> "", msg |-> ""]

\* What a run of a loop gives: its calls and how it ended (None: it is
\* waiting in receive for a message the script does not have).
Ran(calls, outcome) == [calls |-> calls, outcome |-> outcome]

\* do_typecheck's loop from its i-th iteration, the cancellation being
\* signalled before the check of iteration cancel_at (0: never).
RECURSIVE do_typecheck_loop(_, _, _, _)
do_typecheck_loop(script, cancel_at, i, calls) ==
    LET by == "batch"
        c1 == Append(calls, Ev(by, "unwind_if_cancelled", "", "", Bytes(0), TRUE, {}))
    IN  IF cancel_at # 0 /\ i >= cancel_at THEN Ran(c1, Unwound)
        ELSE IF i > Len(script) THEN Ran(c1, None)
        ELSE
        LET t == script[i]
            msg == t.msg
            recv == Ev(by, "receive", msg.tag, msg.module, Bytes(0), TRUE, msg.d)
        IN  IF t.fail = 1
            THEN Ran(Append(c1, Ev(by, "receive", "", "", Bytes(0), FALSE, {})),
                     Error(IoError))
            ELSE IF msg.tag = "GetAstBytes"
            THEN
              LET c2 == c1 \o <<Ev(by, "receive", msg.tag, msg.module, Bytes(0), TRUE, {}),
                                EvQuery(by, msg.format, msg.module, t.ast)>>
                  reply == do_typecheck_reply(t.ast)
                  ret == do_typecheck_return(t.ast, msg.module)
                  c3 == Append(c2, Ev(by, "send", reply.tag, "", reply.n, t.fail # 2, {}))
                  c4 == Append(c3, Ev(by, "receive_newline", "", "", Bytes(0), t.fail # 3, {}))
                  c5 == Append(c4, Ev(by, "send_bytes", "", "", t.ast.len, t.fail # 4, {}))
              IN  IF t.ast.kind = "Ok" /\ ~FitsU32(t.ast.len)
                  THEN Ran(Append(c2, EvTryInto(by, t.ast.len)), Error(OverflowError))
                  ELSE IF t.fail = 2 THEN Ran(c3, Error(IoError))
                  ELSE IF ret # None THEN Ran(c3, ret)
                  ELSE IF t.fail = 3 THEN Ran(c4, Error(IoError))
                  ELSE IF ~do_typecheck_sends_bytes(t.ast)
                  THEN do_typecheck_loop(script, cancel_at, i + 1, c4)
                  ELSE IF t.fail = 4 THEN Ran(c5, Error(IoError))
                  ELSE do_typecheck_loop(script, cancel_at, i + 1, c5)
            ELSE
              LET arm == do_typecheck_arm(msg)
              IN  IF arm \in {"eqwalizing_start", "eqwalizing_done"}
                  THEN do_typecheck_loop(script, cancel_at, i + 1,
                          c1 \o <<recv, Ev(by, arm, "", msg.module, Bytes(0), TRUE, {})>>)
                  ELSE IF arm = "return"
                  THEN Ran(Append(c1, recv), Diagnostics(msg.d))
                  ELSE do_typecheck_loop(script, cancel_at, i + 1, Append(c1, recv))

\* get_module_diagnostics's loop from its i-th iteration, each prefetch of
\* a Dependencies returning the ast of the script's turn.
RECURSIVE get_module_diagnostics_loop(_, _, _, _)
get_module_diagnostics_loop(script, cancel_at, i, calls) ==
    LET by == "query"
        c1 == Append(calls, Ev(by, "unwind_if_cancelled", "", "", Bytes(0), TRUE, {}))
    IN  IF cancel_at # 0 /\ i >= cancel_at THEN Ran(c1, Unwound)
        ELSE IF i > Len(script) THEN Ran(c1, None)
        ELSE
        LET t == script[i]
            msg == t.msg
            recv == Ev(by, "receive", msg.tag, msg.module, Bytes(0), TRUE, msg.d)
        IN  IF t.fail = 1
            THEN Ran(Append(c1, Ev(by, "receive", "", "", Bytes(0), FALSE, {})),
                     Error(IoError))
            ELSE IF msg.tag = "GetAstBytes"
            THEN
              LET c2 == c1 \o <<Ev(by, "receive", msg.tag, msg.module, Bytes(0), TRUE, {}),
                                EvQuery(by, msg.format, msg.module, t.ast)>>
                  reply == get_module_diagnostics_reply(t.ast)
                  ret == get_module_diagnostics_return(t.ast, msg.module)
                  c3 == Append(c2, Ev(by, "send", reply.tag, "", reply.n, t.fail # 2, {}))
                  c4 == Append(c3, Ev(by, "receive_newline", "", "", Bytes(0), t.fail # 3, {}))
                  c5 == Append(c4, Ev(by, "send_bytes", "", "", t.ast.len, t.fail # 4, {}))
              IN  IF t.ast.kind = "Ok" /\ ~FitsU32(t.ast.len)
                  THEN Ran(Append(c2, EvTryInto(by, t.ast.len)), Error(OverflowError))
                  ELSE IF t.fail = 2 THEN Ran(c3, Error(IoError))
                  ELSE IF ret # None THEN Ran(c3, ret)
                  ELSE IF t.fail = 3 THEN Ran(c4, Error(IoError))
                  ELSE IF ~get_module_diagnostics_sends_bytes(t.ast)
                  THEN get_module_diagnostics_loop(script, cancel_at, i + 1, c4)
                  ELSE IF t.fail = 4 THEN Ran(c5, Error(IoError))
                  ELSE get_module_diagnostics_loop(script, cancel_at, i + 1, c5)
            ELSE
              LET arm == get_module_diagnostics_arm(msg)
              IN  CASE arm \in {"eqwalizing_start", "eqwalizing_done"} ->
                        get_module_diagnostics_loop(script, cancel_at, i + 1,
                          c1 \o <<recv, Ev(by, arm, "", msg.module, Bytes(0), TRUE, {})>>)
                    [] arm = "return" ->
                        Ran(Append(c1, recv), Diagnostics(msg.d))
                    [] arm = "prefetch" ->
                        get_module_diagnostics_loop(script, cancel_at, i + 1,
                          c1 \o <<recv>>
                             \o Prefetch(msg.modules, [k \in DOMAIN msg.modules |-> t.ast]))
                    [] OTHER ->
                        get_module_diagnostics_loop(script, cancel_at, i + 1,
                                                    Append(c1, recv))

InitLoops ==
    /\ Idle
    /\ pc = "loops"
    /\ args \in {<<script, cancel_at>> :
                    script \in Scripts, cancel_at \in 0 .. MaxTurns + 1}
    /\ vals = <<>>

\* Both loops run on the same script.
Loops ==
    /\ pc = "loops"
    /\ vals = <<>>
    /\ vals' = <<do_typecheck_loop(args[1], args[2], 1, <<>>),
                 get_module_diagnostics_loop(args[1], args[2], 1, <<>>)>>
    /\ IdleFrame

SpecLoops == InitLoops /\ [][Loops]_vars

\* A call without the name of the loop that made it.
Anon(e) == [e EXCEPT !.by = ""]
AnonCalls(calls) == [k \in DOMAIN calls |-> Anon(calls[k])]

IsNoPrefetch(e) == e.op # "prefetch"

HasDependencies(script) ==
    \E k \in DOMAIN script : script[k].msg.tag = "Dependencies"

\* C23: on the same child messages, AST query results, transport failures
\* and cancellation the batch loop and the shell per-module loop end with
\* the same outcome, and the calls of the per-module loop are those of the
\* batch loop with the prefetches of each Dependencies added; when the
\* child sends no Dependencies the two loops make the same calls (checks,
\* receives, AST queries, sink calls, sends of messages and of raw bytes)
\* in the same order.
C23_LoopsAgree ==
    (pc = "loops" /\ vals # <<>>) =>
        LET batch == vals[1]
            query == vals[2]
        IN  /\ query.outcome = batch.outcome
            /\ AnonCalls(SelectSeq(query.calls, IsNoPrefetch)) = AnonCalls(batch.calls)
            /\ ~HasDependencies(args[1]) =>
                    AnonCalls(query.calls) = AnonCalls(batch.calls)

\* a script without Dependencies: an AST is asked for, found missing and
\* answered with the empty reply by both loops, then Done ends both with
\* its diagnostics
C23_Witness ==
    /\ pc = "loops"
    /\ vals # <<>>
    /\ ~HasDependencies(args[1])
    /\ Len(args[1]) = 2
    /\ args[1][1].msg.tag = "GetAstBytes"
    /\ args[1][1].ast.kind = "ModuleNotFound"
    /\ args[1][1].fail = 0
    /\ args[1][2].msg.tag = "Done"
    /\ args[1][2].fail = 0
    /\ args[2] = 0
    /\ vals[1].outcome = Diagnostics({<<"x", <<"d1">>>>})
    /\ vals[2].outcome = vals[1].outcome
    /\ Len(vals[1].calls) = 7
    /\ Len(vals[2].calls) = 7

====
